---- MODULE Spec2Model ----
(***************************************************************************)
(* AutoGrade AI (Gemini-AI-Studio): the retry wrapper and the five         *)
(* generative-service operations of services/geminiService.ts, and the     *)
(* orchestration state of App.tsx and components/QuestionSetup.tsx.        *)
(*                                                                         *)
(* Strings are sequences of one-character strings, so that trim,           *)
(* toLowerCase, includes and concatenation are computed, not assumed.      *)
(***************************************************************************)
EXTENDS Integers, Sequences, FiniteSets, TLC

(***************************************************************************)
(* Bounds of the model.                                                    *)
(***************************************************************************)
\* milliseconds that pass in one step of the clock
TickMs == 750
\* number of withRetry invocations that may be live at the same time
NumInvocations == 2
\* longest input text handed to refineTextToLatex
MaxTextLen == 2
\* grading calls issued in one run of the application
MaxGradingCalls == 2
\* question scans started in one run of the application
MaxScans == 1
\* solution scans and Format Math calls started in one run of the application
MaxSetupCalls == 2
\* answer files uploaded in one run of the application
MaxUploads == 3

(***************************************************************************)
(* String helpers (String.prototype.includes / toLowerCase / trim).        *)
(***************************************************************************)
UpperCase == <<"A","B","C","D","E","F","G","H","I","J","K","L","M","N","O","P","Q","R","S","T","U","V","W","X","Y","Z">>
LowerCase == <<"a","b","c","d","e","f","g","h","i","j","k","l","m","n","o","p","q","r","s","t","u","v","w","x","y","z">>

toLowerCase(s) ==
  [k \in 1..Len(s) |->
     IF \E u \in 1..Len(UpperCase) : UpperCase[u] = s[k]
       THEN LowerCase[CHOOSE u \in 1..Len(UpperCase) : UpperCase[u] = s[k]]
       ELSE s[k]]

includes(s, t) ==
  \E k \in 0..(Len(s) - Len(t)) : SubSeq(s, k + 1, k + Len(t)) = t

WhiteSpace == {" ", "\t", "\n", "\r"}

RECURSIVE trimStart(_)
trimStart(s) ==
  IF s # <<>> /\ Head(s) \in WhiteSpace THEN trimStart(Tail(s)) ELSE s

RECURSIVE trimEnd(_)
trimEnd(s) ==
  IF s # <<>> /\ s[Len(s)] \in WhiteSpace
    THEN trimEnd(SubSeq(s, 1, Len(s) - 1)) ELSE s

trim(s) == trimEnd(trimStart(s))

\* all sequences over S of length at most n
RECURSIVE SeqsUpTo(_, _)
SeqsUpTo(S, n) ==
  IF n = 0 THEN {<<>>}
  ELSE LET shorter == SeqsUpTo(S, n - 1)
       IN  shorter \cup {Append(s, c) : s \in shorter, c \in S}

(***************************************************************************)
(* String literals of geminiService.ts.                                    *)
(***************************************************************************)
Str429 == <<"4","2","9">>
StrQuota == <<"q","u","o","t","a">>
Str500 == <<"5","0","0">>
Str503 == <<"5","0","3">>
StrOverloaded == <<"o","v","e","r","l","o","a","d","e","d">>
StrUnknownError == <<"U","n","k","n","o","w","n"," ","e","r","r","o","r">>
StrUsagePrefix == <<"U","s","a","g","e"," ","l","i","m","i","t"," ","e","x","c","e","e","d","e","d"," ","f","o","r"," ">>
StrUsageSuffix == <<"."," ","P","l","e","a","s","e"," ","w","a","i","t"," ","a"," ","m","o","m","e","n","t"," ","b","e","f","o","r","e"," ","t","r","y","i","n","g"," ","a","g","a","i","n",".">>
StrFailedTo == <<"F","a","i","l","e","d"," ","t","o"," ">>
StrColon == <<":"," ">>
StrNoData == <<"N","o"," ","d","a","t","a"," ","r","e","t","u","r","n","e","d">>
StrEmptyResponse == <<"E","m","p","t","y"," ","r","e","s","p","o","n","s","e"," ","f","r","o","m"," ","g","r","a","d","i","n","g"," ","m","o","d","e","l">>

\* the description string each operation hands to withRetry
Description(o) ==
  CASE o = "refine" -> <<"r","e","f","i","n","e"," ","t","e","x","t"," ","t","o"," ","L","a","T","e","X">>
    [] o = "convert" -> <<"t","r","a","n","s","c","r","i","b","e"," ","f","i","l","e"," ","t","o"," ","L","a","T","e","X">>
    [] o = "extract" -> <<"e","x","t","r","a","c","t"," ","q","u","e","s","t","i","o","n"," ","d","e","t","a","i","l","s">>
    [] o = "transcribe" -> <<"t","r","a","n","s","c","r","i","b","e"," ","s","o","l","u","t","i","o","n"," ","k","e","y">>
    [] o = "grade" -> <<"g","r","a","d","e"," ","s","u","b","m","i","s","s","i","o","n">>
    [] OTHER -> <<>>

Ops == {"refine", "convert", "extract", "transcribe", "grade"}

(***************************************************************************)
(* RETRY_CONFIG.                                                           *)
(***************************************************************************)
maxRetries == 3
initialDelay == 2000
backoffFactor == 2

(***************************************************************************)
(* Errors.  A falsy status (undefined or 0) is 0; a falsy message          *)
(* (undefined or "") is the empty sequence: `||` treats them alike.        *)
(***************************************************************************)
NoStatus == 0

MkError(status, respStatus, message) ==
  [status |-> status, respStatus |-> respStatus, message |-> message]

\* errors the service client may throw from generateContent
ErrQuotaStatus == MkError(429, NoStatus, <<"T","o","o"," ","M","a","n","y"," ","R","e","q","u","e","s","t","s">>)
ErrServerStatus == MkError(503, NoStatus, <<"S","e","r","v","i","c","e"," ","U","n","a","v","a","i","l","a","b","l","e">>)
ErrRespStatus == MkError(NoStatus, 500, <<>>)
ErrQuotaMessage == MkError(NoStatus, NoStatus, <<"Q","u","o","t","a"," ","e","x","c","e","e","d","e","d">>)
Err429Message == MkError(NoStatus, NoStatus, <<"g","o","t"," ","s","t","a","t","u","s"," ","4","2","9">>)
ErrBadRequest == MkError(400, NoStatus, <<"B","a","d"," ","R","e","q","u","e","s","t">>)

ServiceErrors ==
  {ErrQuotaStatus, ErrServerStatus, ErrRespStatus, ErrQuotaMessage,
   Err429Message, ErrBadRequest}

\* `error.status || error.response?.status`
StatusOf(e) == IF e.status # NoStatus THEN e.status ELSE e.respStatus

\* `error.message || ''`
MessageOf(e) == e.message

\* line 35
isQuota(e) ==
  \/ StatusOf(e) = 429
  \/ includes(MessageOf(e), Str429)
  \/ includes(toLowerCase(MessageOf(e)), StrQuota)

\* line 36
isServer(e) ==
  \/ StatusOf(e) >= 500
  \/ includes(MessageOf(e), Str500)
  \/ includes(MessageOf(e), Str503)
  \/ includes(MessageOf(e), StrOverloaded)

\* line 38 with the server class forgotten, and with the class test dropped
ShouldRetryQuotaOnly(att, e) == att < maxRetries /\ isQuota(e)
ShouldRetryAnyError(att, e) == att < maxRetries

\* line 38: is another attempt made after error e at loop index `att`
ShouldRetry(att, e) == att < maxRetries /\ (isQuota(e) \/ isServer(e))

\* `lastError?.message || 'Unknown error'`
FinalMessageOf(e) == IF e.message # <<>> THEN e.message ELSE StrUnknownError

\* line 54: the final classification
FinalIsQuota(e) ==
  StatusOf(e) = 429 \/ includes(toLowerCase(FinalMessageOf(e)), StrQuota)

UsageLimitMessage(d) == StrUsagePrefix \o d \o StrUsageSuffix
GenericMessage(d, e) == StrFailedTo \o d \o StrColon \o FinalMessageOf(e)

\* lines 50-59: the message of the one Error that withRetry throws
FinalError(d, e) ==
  IF FinalIsQuota(e) THEN UsageLimitMessage(d) ELSE GenericMessage(d, e)

(***************************************************************************)
(* Values returned by the operations.  One record shape serves free text,  *)
(* the extracted question and the grading result: `has` names the fields   *)
(* that are present on the object.                                         *)
(***************************************************************************)
BlankValue ==
  [text |-> <<>>, has |-> {}, id |-> 0,
   title |-> <<>>, description |-> <<>>, totalMarks |-> 0]

TextValue(t) == [BlankValue EXCEPT !.text = t, !.has = {"text"}]

\* the `required` list of the grading response schema
GradingFields ==
  {"score", "maxScore", "summary", "feedback", "mistakes", "mistakeTypes",
   "gradingConfidence", "improvements"}

\* the `required` list of the extraction response schema
ExtractFields == {"title", "description", "totalMarks"}

(***************************************************************************)
(* JSON documents the service may answer with, and JSON.parse on them.     *)
(***************************************************************************)
ExtractFullDoc ==
  [text |-> <<"{","\"","t","i","t","l","e","\"",":","\"","T","\"",",","\"","d","e","s","c","r","i","p","t","i","o","n","\"",":","\"","X","\"",",","\"","t","o","t","a","l","M","a","r","k","s","\"",":","1","0","}">>,
   value |-> [BlankValue EXCEPT !.has = ExtractFields, !.title = <<"T">>,
                                !.description = <<"X">>, !.totalMarks = 10]]
\* {title: "", description: "X"}: totalMarks is undefined
ExtractNoMarksDoc ==
  [text |-> <<"{","\"","t","i","t","l","e","\"",":","\"","\"",",","\"","d","e","s","c","r","i","p","t","i","o","n","\"",":","\"","X","\"","}">>,
   value |-> [BlankValue EXCEPT !.has = {"title", "description"},
                                !.description = <<"X">>]]
ExtractZeroDoc ==
  [text |-> <<"{","\"","t","i","t","l","e","\"",":","\"","T","\"",",","\"","d","e","s","c","r","i","p","t","i","o","n","\"",":","\"","\"",",","\"","t","o","t","a","l","M","a","r","k","s","\"",":","0","}">>,
   value |-> [BlankValue EXCEPT !.has = ExtractFields, !.title = <<"T">>]]
GradeFullDoc ==
  [text |-> <<"{","\"","s","c","o","r","e","\"",":","1",",","\"","m","a","x","S","c","o","r","e","\"",":","2",",","\"","s","u","m","m","a","r","y","\"",":","\"","s","\"",",","\"","f","e","e","d","b","a","c","k","\"",":","\"","f","\"",",","\"","m","i","s","t","a","k","e","s","\"",":","[","]",",","\"","m","i","s","t","a","k","e","T","y","p","e","s","\"",":","[","]",",","\"","g","r","a","d","i","n","g","C","o","n","f","i","d","e","n","c","e","\"",":","1",",","\"","i","m","p","r","o","v","e","m","e","n","t","s","\"",":","[","]","}">>,
   value |-> [BlankValue EXCEPT !.has = GradingFields]]
GradeNoTypesDoc ==
  [text |-> <<"{","\"","s","c","o","r","e","\"",":","1",",","\"","m","a","x","S","c","o","r","e","\"",":","2",",","\"","s","u","m","m","a","r","y","\"",":","\"","s","\"",",","\"","f","e","e","d","b","a","c","k","\"",":","\"","f","\"",",","\"","m","i","s","t","a","k","e","s","\"",":","[","]",",","\"","g","r","a","d","i","n","g","C","o","n","f","i","d","e","n","c","e","\"",":","1",",","\"","i","m","p","r","o","v","e","m","e","n","t","s","\"",":","[","]","}">>,
   value |-> [BlankValue EXCEPT !.has = GradingFields \ {"mistakeTypes"}]]

JsonDocs ==
  {ExtractFullDoc, ExtractNoMarksDoc, ExtractZeroDoc, GradeFullDoc, GradeNoTypesDoc}

NotJsonText == <<"o","o","p","s">>
SyntaxError ==
  MkError(NoStatus, NoStatus, <<"U","n","e","x","p","e","c","t","e","d"," ","t","o","k","e","n"," ","o"," ","i","n"," ","J","S","O","N"," ","a","t"," ","p","o","s","i","t","i","o","n"," ","0">>)

NoError == MkError(NoStatus, NoStatus, <<>>)

\* JSON.parse: the parsed object, or a thrown SyntaxError
JSONParse(t) ==
  IF \E d \in JsonDocs : d.text = t
    THEN [ok |-> TRUE, value |-> (CHOOSE d \in JsonDocs : d.text = t).value,
          err |-> NoError]
    ELSE [ok |-> FALSE, value |-> BlankValue, err |-> SyntaxError]

(***************************************************************************)
(* What ai.models.generateContent does on one call: it throws an error or  *)
(* answers with a response whose text may be missing (the empty sequence   *)
(* stands for undefined and for "", both falsy).                           *)
(***************************************************************************)
Thrown(e) == [throws |-> TRUE, err |-> e, text |-> <<>>]
Answer(t) == [throws |-> FALSE, err |-> NoError, text |-> t]

FreeTexts == {<<>>, <<" ">>, <<" ", "y", "\n">>}

Responses(o) ==
  {Thrown(e) : e \in ServiceErrors}
  \cup (CASE o = "extract" ->
               {Answer(t) : t \in {<<>>, NotJsonText, ExtractFullDoc.text,
                                   ExtractNoMarksDoc.text, ExtractZeroDoc.text}}
          [] o = "grade" ->
               {Answer(t) : t \in {<<>>, NotJsonText, GradeFullDoc.text,
                                   GradeNoTypesDoc.text}}
          [] OTHER -> {Answer(t) : t \in FreeTexts})

(***************************************************************************)
(* The five operations: the closure each hands to withRetry, applied to    *)
(* one response r.  `fresh` is what crypto.randomUUID() returns.           *)
(***************************************************************************)
Return(v) == [ok |-> TRUE, value |-> v, err |-> NoError]
Throw(e) == [ok |-> FALSE, value |-> BlankValue, err |-> e]

\* lines 95-99: `response.text?.trim() || text`
refineOperation(text, r) ==
  IF r.throws THEN Throw(r.err)
  ELSE Return(TextValue(IF trim(r.text) # <<>> THEN trim(r.text) ELSE text))

\* lines 122-139 and 205-222: `response.text?.trim() || ""`
transcribeOperation(r) ==
  IF r.throws THEN Throw(r.err) ELSE Return(TextValue(trim(r.text)))

\* lines 181-188 answering a missing text with an object of defaults
extractOperationDefaulting(r, fresh) ==
  IF r.throws THEN Throw(r.err)
  ELSE LET data == JSONParse(r.text)
       IN  Return([(IF data.ok THEN data.value ELSE BlankValue) EXCEPT !.id = fresh])

\* lines 159-188
extractOperation(r, fresh) ==
  IF r.throws THEN Throw(r.err)
  ELSE IF r.text # <<>>
    THEN LET data == JSONParse(r.text)
         IN  IF data.ok
               THEN Return([data.value EXCEPT !.id = fresh,
                                              !.has = data.value.has \cup {"id"}])
               ELSE Throw(data.err)
    ELSE Throw(MkError(NoStatus, NoStatus, StrNoData))

\* lines 303-341
gradeOperation(r) ==
  IF r.throws THEN Throw(r.err)
  ELSE IF r.text # <<>>
    THEN LET data == JSONParse(r.text)
         IN  IF data.ok THEN Return(data.value) ELSE Throw(data.err)
    ELSE Throw(MkError(NoStatus, NoStatus, StrEmptyResponse))

Operation(o, text, r, fresh) ==
  CASE o = "refine" -> refineOperation(text, r)
    [] o = "extract" -> extractOperation(r, fresh)
    [] o = "grade" -> gradeOperation(r)
    [] OTHER -> transcribeOperation(r)

(***************************************************************************)
(* State of the withRetry invocations.                                     *)
(***************************************************************************)
VARIABLES
  pc,            \* per invocation: "idle", "attempt", "delay", "returned", "thrown"
  op,            \* per invocation: the operation it runs
  arg,           \* per invocation: the text handed to refineTextToLatex
  attempt,       \* per invocation: the loop index `attempt`
  currentDelay,  \* per invocation: the local `currentDelay`
  lastError,     \* per invocation: the local `lastError` (<<>> is undefined)
  calls,         \* per invocation: how many times operation() was called
  waited,        \* per invocation: the arguments of the delay() calls, in order
  trace,         \* per invocation: the outcome of every operation() call, in order
  result,        \* per invocation: what the promise settled with
  uuidCount      \* how many identifiers crypto.randomUUID() has handed out

retryLocals ==
  <<pc, op, arg, attempt, currentDelay, lastError, calls, waited, trace, result>>
retryVars == <<retryLocals, uuidCount>>

(***************************************************************************)
(* State of the application shell (App.tsx) and of the question setup      *)
(* panel (components/QuestionSetup.tsx).                                   *)
(***************************************************************************)
VARIABLES
  activeQuestion,  \* App: the question context
  latexSource,     \* App: the submission text
  debouncedLatex,  \* App: useDebounce(latexSource, 1500)
  debounceTimer,   \* useDebounce: is its timeout pending
  debounceClock,   \* useDebounce: ms the timeout has run; history of the window
  answerFile,      \* App: the uploaded answer file (<<>> is null)
  gradingResult,   \* App: the displayed grading result (<<>> is null)
  processing,      \* App: isConverting, isGrading, error (<<>> is null)
  gradingCalls,    \* gradeLatexSubmission calls in flight, with what they captured
  convertCalls,    \* convertImageToLatex calls in flight
  scans,           \* extractQuestionFromImage calls in flight, with what they captured
  alerts,          \* the alert() messages shown so far
  issued,          \* history: grading calls issued so far (numbers them)
  started,         \* history: scans and uploads started so far
  lastSettled,     \* history: the grading call that settled last, and how
  resolved,        \* history: the grading calls that resolved with a result
  lastMerge,       \* history: the last extraction merged into the question
  lastConverted,   \* history: the conversion that settled last, and how
  preview,         \* App: pdfUrl, is App mounted; the object URLs not revoked
  view,            \* the renderers: what was rendered, with which engine, as what
  cleared,         \* history: the calls in flight that a Clear found in flight
  setup,           \* QuestionSetup: isScanning, isFormatting, its calls in flight
  editor           \* LatexEditor: the caret, suggestions, showSuggestions

appVars ==
  <<activeQuestion, latexSource, debouncedLatex, debounceTimer, debounceClock,
    answerFile, gradingResult, processing, gradingCalls, convertCalls, scans,
    alerts, issued, started, lastSettled, resolved, lastMerge, lastConverted,
    preview, view, cleared, setup, editor>>

vars == <<retryVars, appVars>>

Invocations == 1..NumInvocations

NoResult == [kind |-> "none", value |-> BlankValue, message |-> <<>>]
Resolved(v) == [kind |-> "value", value |-> v, message |-> <<>>]
Rejected(m) == [kind |-> "error", value |-> BlankValue, message |-> m]

RetryStateInit ==
  /\ pc = [i \in Invocations |-> "idle"]
  /\ op = [i \in Invocations |-> "none"]
  /\ arg = [i \in Invocations |-> <<>>]
  /\ attempt = [i \in Invocations |-> 0]
  /\ currentDelay = [i \in Invocations |-> 0]
  /\ lastError = [i \in Invocations |-> <<>>]
  /\ calls = [i \in Invocations |-> 0]
  /\ waited = [i \in Invocations |-> <<>>]
  /\ trace = [i \in Invocations |-> <<>>]
  /\ result = [i \in Invocations |-> NoResult]
  /\ uuidCount = 0

(***************************************************************************)
(* Initial state of the application: App.tsx lines 22-40.                  *)
(***************************************************************************)
\* the id 'custom' of the initial question; crypto.randomUUID() yields 1, 2, ...
CustomId == 0

StrNewAssignment == <<"N","e","w"," ","A","s","s","i","g","n","m","e","n","t">>
StrDefaultDescription == <<"S","o","l","v","e"," ","t","h","e"," ","e","q","u","a","t","i","o","n"," ","$","2","x","^","2"," ","-"," ","4","x"," ","-"," ","6"," ","="," ","0","$"," ","b","y"," ","u","s","i","n","g"," ","t","h","e"," ","q","u","a","d","r","a","t","i","c"," ","f","o","r","m","u","l","a",".">>

\* idealSolution and questionImage are optional: <<>> is undefined
InitialQuestion ==
  [id |-> CustomId, title |-> StrNewAssignment,
   description |-> StrDefaultDescription, totalMarks |-> 100,
   idealSolution |-> <<>>, questionImage |-> <<>>]

NoneSettled == [seq |-> 0, kind |-> "none"]
NothingRendered ==
  [component |-> "none", input |-> <<>>, engine |-> "standards",
   elements |-> <<>>, body |-> <<>>]
NoMerge == [seq |-> 0, extracted |-> BlankValue, captured |-> InitialQuestion]
NoSetupMerge == [seq |-> 0, op |-> "none", field |-> "none"]

AppStateInit ==
  /\ activeQuestion = InitialQuestion
  /\ latexSource = <<>>
  /\ debouncedLatex = <<>>
  /\ debounceTimer = TRUE
  /\ debounceClock = [elapsed |-> 0, quiet |-> 0, cut |-> <<>>]
  /\ answerFile = <<>>
  /\ gradingResult = <<>>
  /\ processing = [isConverting |-> FALSE, isGrading |-> FALSE, error |-> <<>>]
  /\ gradingCalls = {}
  /\ convertCalls = {}
  /\ scans = {}
  /\ alerts = {}
  /\ issued = 0
  /\ started = [scan |-> 0, upload |-> 0]
  /\ lastSettled = NoneSettled
  /\ resolved = {}
  /\ lastMerge = NoMerge
  /\ lastConverted = [seq |-> 0, kind |-> "none"]
  /\ preview = [pdfUrl |-> <<>>, mounted |-> TRUE, live |-> {}, created |-> 0]
  /\ view = NothingRendered
  /\ cleared = {}
  /\ setup = [isScanning |-> FALSE, isFormatting |-> FALSE, calls |-> {},
              started |-> 0, lastMerge |-> NoSetupMerge]
  /\ editor = [caret |-> 0, suggestions |-> <<>>, showSuggestions |-> FALSE,
              steps |-> 0, event |-> [kind |-> "none", cmd |-> <<>>]]

Init == RetryStateInit /\ AppStateInit

\* `let currentDelay` is a local of the invocation: each has its own cell
DelayCellShared(i) == 1
DelayCell(i) == i

\* line 41: `currentDelay *= RETRY_CONFIG.backoffFactor`
NextDelayLinear(d) == d + initialDelay
NextDelay(d) == d * backoffFactor

\* line 23: the loop condition
LoopCondition(att) == att <= maxRetries

\* line 67 without the trim
ShortCircuitsNoTrim(o, text) == o = "refine" /\ text = <<>>

\* line 67: `if (!text.trim()) return ""`
ShortCircuits(o, text) == o = "refine" /\ trim(text) = <<>>

\* An exported operation is called: refineTextToLatex may return at once,
\* every other path enters withRetry (lines 20-23).
Invoke(i, o, text) ==
  /\ pc[i] = "idle"
  /\ op' = [op EXCEPT ![i] = o]
  /\ arg' = [arg EXCEPT ![i] = text]
  /\ IF ShortCircuits(o, text)
       THEN /\ pc' = [pc EXCEPT ![i] = "returned"]
            /\ result' = [result EXCEPT ![i] = Resolved(TextValue(<<>>))]
            /\ UNCHANGED <<attempt, currentDelay>>
       ELSE /\ pc' = [pc EXCEPT ![i] = "attempt"]
            /\ attempt' = [attempt EXCEPT ![i] = 0]
            /\ currentDelay' = [currentDelay EXCEPT ![DelayCell(i)] = initialDelay]
            /\ UNCHANGED result
  /\ UNCHANGED <<lastError, calls, waited, trace, uuidCount, appVars>>

\* lines 24-47: one pass of the loop body, the service answering with r
Attempt(i, r) ==
  /\ pc[i] = "attempt"
  /\ LET out == Operation(op[i], arg[i], r, uuidCount + 1)
     IN  /\ calls' = [calls EXCEPT ![i] = @ + 1]
         /\ trace' = [trace EXCEPT ![i] = Append(@,
                        [ok |-> out.ok, err |-> out.err, value |-> out.value,
                         noText |-> ~r.throws /\ r.text = <<>>])]
         /\ uuidCount' = IF out.ok /\ op[i] = "extract" THEN uuidCount + 1 ELSE uuidCount
         /\ IF out.ok
              THEN /\ pc' = [pc EXCEPT ![i] = "returned"]
                   /\ result' = [result EXCEPT ![i] = Resolved(out.value)]
                   /\ UNCHANGED <<lastError, waited>>
              ELSE /\ lastError' = [lastError EXCEPT ![i] = <<out.err>>]
                   /\ IF ShouldRetry(attempt[i], out.err)
                        THEN /\ pc' = [pc EXCEPT ![i] = "delay"]
                             /\ waited' = [waited EXCEPT
                                             ![i] = Append(@, currentDelay[DelayCell(i)])]
                             /\ UNCHANGED result
                        ELSE /\ pc' = [pc EXCEPT ![i] = "thrown"]
                             /\ result' = [result EXCEPT
                                  ![i] = Rejected(FinalError(Description(op[i]), out.err))]
                             /\ UNCHANGED waited
  /\ UNCHANGED <<op, arg, attempt, currentDelay, appVars>>

\* lines 40-42 and 23: the delay elapses, the delay doubles, the loop goes on
DelayElapsed(i) ==
  /\ pc[i] = "delay"
  /\ currentDelay' = [currentDelay EXCEPT ![DelayCell(i)] = NextDelay(@)]
  /\ attempt' = [attempt EXCEPT ![i] = @ + 1]
  /\ IF LoopCondition(attempt[i] + 1)
       THEN /\ pc' = [pc EXCEPT ![i] = "attempt"]
            /\ UNCHANGED result
       ELSE /\ pc' = [pc EXCEPT ![i] = "thrown"]
            /\ result' = [result EXCEPT
                 ![i] = Rejected(FinalError(Description(op[i]), lastError[i][1]))]
  /\ UNCHANGED <<op, arg, lastError, calls, waited, trace, uuidCount, appVars>>


(***************************************************************************)
(* SpecRetry: one invocation of any of the five operations, on any input   *)
(* text, against a service that may answer anything on every call.         *)
(***************************************************************************)
TextChars == {" ", "\n", "x"}
Texts == SeqsUpTo(TextChars, MaxTextLen)

RetryInvoke ==
  \E o \in Ops, t \in Texts :
     /\ (o # "refine" => t = <<"x">>)
     /\ Invoke(1, o, t)
RetryAttempt == \E r \in Responses(op[1]) : Attempt(1, r)
RetryDelay == DelayElapsed(1)

NextRetry == RetryInvoke \/ RetryAttempt \/ RetryDelay

SpecRetry == Init /\ [][NextRetry]_vars

(***************************************************************************)
(* SpecPair: the invocations run side by side, their attempts and delays   *)
(* interleaving in every order.                                            *)
(***************************************************************************)
PairOps == {"convert", "grade"}
PairResponses(o) ==
  {Thrown(ErrQuotaStatus), Thrown(ErrBadRequest),
   Answer(IF o = "grade" THEN GradeFullDoc.text ELSE <<"y">>)}

PairInvoke == \E i \in Invocations, o \in PairOps : Invoke(i, o, <<"x">>)
PairAttempt == \E i \in Invocations : \E r \in PairResponses(op[i]) : Attempt(i, r)
PairDelay == \E i \in Invocations : DelayElapsed(i)

NextPair == PairInvoke \/ PairAttempt \/ PairDelay

SpecPair == Init /\ [][NextPair]_vars

(***************************************************************************)
(* Properties of the retry wrapper and the call layer.                     *)
(***************************************************************************)
RECURSIVE SumSeq(_)
SumSeq(s) == IF s = <<>> THEN 0 ELSE Head(s) + SumSeq(Tail(s))

\* the error of the last failed operation() call of a trace
LastFailure(tr) == tr[Len(tr)].err

\* every call of the trace failed, each with HTTP 429 or an HTTP status >= 500
AllFailedByStatus(tr) ==
  \A k \in 1..Len(tr) :
     /\ ~tr[k].ok
     /\ (StatusOf(tr[k].err) = 429 \/ StatusOf(tr[k].err) >= 500)

\* C1: withRetry calls the operation at most 4 times, and an operation that
\* fails on every attempt with a 429 or a status >= 500 has been called
\* exactly 4 times when the wrapper fails.
C1_AtMostFourAttempts ==
  /\ calls[1] <= 4
  /\ (pc[1] = "thrown" /\ AllFailedByStatus(trace[1])) => calls[1] = 4

C1_Witness ==
  /\ pc[1] = "thrown"
  /\ calls[1] = 4
  /\ AllFailedByStatus(trace[1])
  /\ trace[1][1].err = ErrQuotaStatus
  /\ trace[1][4].err = ErrServerStatus

\* C2: when the first failure of the operation is fatal (neither quota nor
\* server), the operation was called exactly once, no delay was waited and
\* the wrapper has raised the failure.
C2_FatalNotRetried ==
  (/\ trace[1] # <<>>
   /\ ~trace[1][1].ok
   /\ ~isQuota(trace[1][1].err)
   /\ ~isServer(trace[1][1].err))
  => /\ pc[1] = "thrown"
     /\ calls[1] = 1
     /\ waited[1] = <<>>
     /\ result[1].kind = "error"

C2_Witness ==
  /\ pc[1] = "thrown"
  /\ trace[1] # <<>>
  /\ trace[1][1].err = ErrBadRequest
  /\ calls[1] = 1

\* C3: an operation that fails with a 429 on its first N calls and succeeds
\* on call N+1 makes withRetry return that call's result after exactly N+1
\* calls, having waited 2000, 4000, 8000 ms in that order for the N
\* failures: at least 2000*(2^N - 1) ms in all.  (Stated for N < 3; the
\* loop allows N = 3 as well, and it is checked too.)
C3_BackoffThenSuccess ==
  \A n \in 0..3 :
     (/\ Len(trace[1]) = n + 1
      /\ \A k \in 1..n : ~trace[1][k].ok /\ StatusOf(trace[1][k].err) = 429
      /\ trace[1][n + 1].ok)
     => /\ pc[1] = "returned"
        /\ result[1] = Resolved(trace[1][n + 1].value)
        /\ calls[1] = n + 1
        /\ waited[1] = SubSeq(<<2000, 4000, 8000>>, 1, n)
        /\ SumSeq(waited[1]) >= 2000 * (2^n - 1)

C3_Witness ==
  /\ Len(trace[1]) = 3
  /\ trace[1][1].err = ErrQuotaStatus /\ ~trace[1][1].ok
  /\ trace[1][2].err = ErrQuotaStatus /\ ~trace[1][2].ok
  /\ trace[1][3].ok
  /\ pc[1] = "returned"
  /\ waited[1] = <<2000, 4000>>

\* C4: when withRetry gives up it raises one failure naming the operation:
\* the usage-limit message when the last error is quota-exceeded (as the
\* loop classifies it, line 35), and the generic message with the
\* underlying message otherwise.
C4_ConsolidatedFailure ==
  pc[1] = "thrown" =>
    LET e == LastFailure(trace[1])
        d == Description(op[1])
    IN  /\ result[1].kind = "error"
        /\ includes(result[1].message, d)
        /\ result[1].message =
             IF isQuota(e) THEN UsageLimitMessage(d) ELSE GenericMessage(d, e)

\* the delays an invocation with this trace of its own has asked for
NumRetried(tr) ==
  Cardinality({k \in 1..Len(tr) : ~tr[k].ok /\ ShouldRetry(k - 1, tr[k].err)})

\* C5: interleaved invocations share no state: the attempt counter, the
\* current delay, the last error and the delays waited of each are those
\* its own failures alone determine.
C5_IndependentInvocations ==
  \A i \in Invocations :
     /\ calls[i] = Len(trace[i])
     /\ waited[i] = SubSeq(<<2000, 4000, 8000>>, 1, NumRetried(trace[i]))
     /\ attempt[i] = Len(waited[i]) - (IF pc[i] = "delay" THEN 1 ELSE 0)
     /\ (pc[i] \in {"attempt", "delay"} => currentDelay[i] = initialDelay * 2^attempt[i])
     /\ lastError[i] =
          (IF \E k \in 1..Len(trace[i]) : ~trace[i][k].ok
             THEN <<trace[i][CHOOSE k \in 1..Len(trace[i]) :
                        /\ ~trace[i][k].ok
                        /\ \A m \in (k + 1)..Len(trace[i]) : trace[i][m].ok].err>>
             ELSE <<>>)

C5_Witness ==
  /\ pc[1] = "delay" /\ Len(waited[1]) = 3
  /\ pc[2] = "delay" /\ Len(waited[2]) = 1

\* C7: a grading answer that is valid JSON without mistakeTypes makes
\* gradeLatexSubmission fail: it never returns a result lacking a required
\* field.
C7_MissingFieldFails ==
  (op[1] = "grade" /\ pc[1] = "returned") => GradingFields \subseteq result[1].value.has

\* C8: for question extraction and grading, a response without output text
\* ends the invocation at once: no call follows it (a single call when it
\* is the first answer) and the operation fails with the descriptive error.
C8_NoTextIsFatal ==
  op[1] \in {"extract", "grade"} =>
    \A k \in 1..Len(trace[1]) :
       trace[1][k].noText =>
         /\ k = Len(trace[1])
         /\ calls[1] = k
         /\ pc[1] = "thrown"
         /\ result[1].kind = "error"
         /\ result[1].message =
              StrFailedTo \o Description(op[1]) \o StrColon
                \o (IF op[1] = "extract" THEN StrNoData ELSE StrEmptyResponse)

C8_Witness ==
  /\ op[1] = "extract"
  /\ calls[1] = 1
  /\ trace[1][1].noText
  /\ pc[1] = "thrown"

\* C9: refineTextToLatex on an empty or whitespace-only text returns "" and
\* makes no service call; on every other text it has made at least one
\* service call when it settles.
C9_EmptyShortCircuits ==
  op[1] = "refine" =>
    IF \A k \in 1..Len(arg[1]) : arg[1][k] \in WhiteSpace
      THEN /\ pc[1] = "returned"
           /\ result[1] = Resolved(TextValue(<<>>))
           /\ calls[1] = 0
      ELSE pc[1] \in {"returned", "thrown"} => calls[1] >= 1

C9_Witness ==
  /\ op[1] = "refine"
  /\ arg[1] = <<" ", "\n">>
  /\ pc[1] = "returned"
  /\ calls[1] = 0


(***************************************************************************)
(* The application shell and the question setup panel.                     *)
(***************************************************************************)
\* what a call through withRetry settles with: the value of the operation,
\* or the one consolidated Error
Settle(o, out) ==
  IF out.ok THEN Resolved(out.value)
  ELSE Rejected(FinalError(Description(o), out.err))

\* what the calls whose operation reads neither the text nor a fresh
\* identifier can settle with, computed once
SettledWith ==
  [o \in {"convert", "transcribe", "grade"} |->
     {Settle(o, Operation(o, <<>>, r, 0)) : r \in Responses(o)}]

Outcomes(o, text, fresh) ==
  IF o \in DOMAIN SettledWith THEN SettledWith[o]
  ELSE {Settle(o, Operation(o, text, r, fresh)) : r \in Responses(o)}

StrImageSlash == <<"i","m","a","g","e","/">>
MimePng == <<"i","m","a","g","e","/","p","n","g">>
MimePdf == <<"a","p","p","l","i","c","a","t","i","o","n","/","p","d","f">>
MimeText == <<"t","e","x","t","/","p","l","a","i","n">>

Files ==
  {[name |-> "page.png", type |-> MimePng, data |-> "base64-png"],
   [name |-> "paper.pdf", type |-> MimePdf, data |-> "base64-pdf"],
   [name |-> "notes.txt", type |-> MimeText, data |-> "base64-txt"]}

startsWith(s, prefix) ==
  Len(s) >= Len(prefix) /\ SubSeq(s, 1, Len(prefix)) = prefix

\* the type test left out
AcceptedTypeAny(f) == TRUE

\* `file.type.startsWith('image/') || file.type === 'application/pdf'`
AcceptedType(f) == startsWith(f.type, StrImageSlash) \/ f.type = MimePdf

\* the texts the user types into the editor
LatexTexts == {<<>>, <<" ">>, <<"a">>, <<"b">>}
\* the titles the user types into the title field
Titles == {<<"T">>, <<"U">>}

\* the result object of one grading call: what JSON.parse returned, which is
\* the service's assessment of the call's own inputs (seq is history)
GradingResultOf(c, v) ==
  [has |-> v.has, latex |-> c.latex, context |-> c.context, seq |-> c.seq]

\* App.tsx lines 100-101: the result of a call is displayed when it resolves
DisplaysIfLatest(c) == c.seq = issued
Displays(c) == TRUE

\* App.tsx lines 96-107 up to the await: handleGrading(latex, context)
handleGrading(latex, context) ==
  IF trim(latex) = <<>>
    THEN UNCHANGED <<processing, gradingCalls, issued>>
    ELSE /\ issued < MaxGradingCalls
         /\ processing' = [processing EXCEPT !.isGrading = TRUE, !.error = <<>>]
         /\ gradingCalls' = gradingCalls \cup
              {[seq |-> issued + 1, latex |-> latex, context |-> context,
                errorBefore |-> processing.error]}
         /\ issued' = issued + 1

\* App.tsx lines 121-127: the effect on [debouncedLatex, activeQuestion]
GradingEffect(debounced, question) ==
  IF debounced # <<>>
    THEN /\ handleGrading(debounced, question)
         /\ UNCHANGED gradingResult
    ELSE /\ gradingResult' = <<>>
         /\ UNCHANGED <<processing, gradingCalls, issued>>

\* App.tsx line 40 with half the delay
DebounceDelayHalved == 1500 \div 2

\* App.tsx line 40: the delay handed to useDebounce
DebounceDelay == 1500

\* useDebounce on a change of its value: the pending timeout is cleared and
\* a new one is scheduled
RestartTimerKeeps(e) == e
RestartTimer(e) == 0

\* the clock after the submission text changed.  quiet is the time since
\* the last change; cut is the text that was replaced while its window was
\* running (history)
Restarted ==
  [elapsed |-> RestartTimer(debounceClock.elapsed),
   quiet |-> 0,
   cut |-> IF ~debounceTimer THEN <<>>
           ELSE IF 0 < debounceClock.quiet /\ debounceClock.quiet < DebounceDelay
             THEN <<latexSource>> ELSE debounceClock.cut]

\* ms milliseconds pass while the timeout of useDebounce is pending
Tick(ms) ==
  /\ preview.mounted
  /\ debounceTimer
  /\ debounceClock.elapsed < DebounceDelay
  /\ LET Capped(t) == IF t < DebounceDelay THEN t ELSE DebounceDelay
     IN  debounceClock' = [debounceClock EXCEPT !.elapsed = Capped(@ + ms),
                                                !.quiet = Capped(@ + ms)]
  /\ UNCHANGED <<activeQuestion, latexSource, debouncedLatex, debounceTimer,
                 answerFile, gradingResult, processing, gradingCalls,
                 convertCalls, scans, alerts, issued, started, lastSettled,
                 resolved, lastMerge, lastConverted, preview,
                 view, cleared, setup, editor, retryVars>>

\* the editor's onChange: setLatexSource; useDebounce restarts its timeout
EditLatex ==
  \E t \in LatexTexts :
     /\ preview.mounted
     /\ t # latexSource
     /\ latexSource' = t
     /\ debounceTimer' = TRUE
     /\ debounceClock' = Restarted
     /\ UNCHANGED <<activeQuestion, debouncedLatex, answerFile, gradingResult,
                    processing, gradingCalls, convertCalls, scans, alerts,
                    issued, started, lastSettled, resolved, lastMerge,
                    lastConverted, preview,
                    view, cleared, setup, editor, retryVars>>

\* useDebounce: the timeout fires after 1500 ms without a change
DebounceFire ==
  /\ preview.mounted
  /\ debounceTimer
  /\ debounceClock.elapsed >= DebounceDelay
  /\ debounceTimer' = FALSE
  /\ debouncedLatex' = latexSource
  /\ IF latexSource # debouncedLatex
       THEN GradingEffect(latexSource, activeQuestion)
       ELSE UNCHANGED <<gradingResult, processing, gradingCalls, issued>>
  /\ UNCHANGED <<activeQuestion, latexSource, debounceClock, answerFile,
                 convertCalls, scans, alerts, started, lastSettled, resolved,
                 lastMerge, lastConverted, preview,
                 view, cleared, setup, editor, retryVars>>

\* App.tsx lines 102-106 also storing the message in the error slot
AfterGradingReporting(p, o) ==
  [p EXCEPT !.isGrading = FALSE,
            !.error = IF o.kind = "error" THEN <<o.message>> ELSE @]

\* App.tsx lines 102-106: catch logs the error, finally clears the flag
AfterGrading(p, o) == [p EXCEPT !.isGrading = FALSE]

\* App.tsx lines 100-106: a grading call settles
GradingSettles ==
  \E c \in gradingCalls : \E o \in Outcomes("grade", c.latex, 0) :
     /\ preview.mounted
     /\ gradingCalls' = gradingCalls \ {c}
     /\ gradingResult' =
          IF o.kind = "value" /\ Displays(c)
            THEN <<GradingResultOf(c, o.value)>> ELSE gradingResult
     /\ processing' = AfterGrading(processing, o)
     /\ lastSettled' = [seq |-> c.seq, kind |-> o.kind]
     /\ resolved' = IF o.kind = "value" THEN resolved \cup {c.seq} ELSE resolved
     /\ cleared' = cleared \ {c.seq}
     /\ UNCHANGED <<activeQuestion, latexSource, debouncedLatex, debounceTimer,
                    debounceClock, answerFile, convertCalls, scans, alerts,
                    issued, started, lastMerge, lastConverted, preview,
                    view, setup, editor, retryVars>>

\* App.tsx lines 46-63: useMemo on [answerFile]; `fresh` is the URL that
\* URL.createObjectURL returns
MemoPdfUrl(file, fresh) ==
  IF file # <<>> /\ file[1].mimeType = MimePdf THEN <<fresh>> ELSE <<>>

\* App.tsx lines 66-72 with the cleanup revoking nothing
CleanupLeaks(live, url) == live

\* App.tsx lines 66-72: the cleanup of the effect on [pdfUrl]
Cleanup(live, url) == IF url # <<>> THEN live \ {url[1]} ELSE live

\* App is rendered again after setAnswerFile(file): a new pdfUrl is
\* computed, then the cleanup of the previous one runs
Rerendered(file) ==
  LET url == MemoPdfUrl(file, preview.created + 1)
  IN  [preview EXCEPT
         !.pdfUrl = url,
         !.created = IF url # <<>> THEN @ + 1 ELSE @,
         !.live = Cleanup(@, preview.pdfUrl) \cup {url[k] : k \in 1..Len(url)}]

\* App is unmounted: the cleanup of the last effect on [pdfUrl] runs and
\* useDebounce clears its timeout; from then on no handler has an effect
Unmount ==
  /\ preview.mounted
  /\ preview' = [preview EXCEPT !.mounted = FALSE,
                                !.live = Cleanup(@, preview.pdfUrl)]
  /\ debounceTimer' = FALSE
  /\ UNCHANGED <<activeQuestion, latexSource, debouncedLatex,
                 debounceClock, answerFile, gradingResult, processing,
                 gradingCalls, convertCalls, scans, alerts, issued, started,
                 lastSettled, resolved, lastMerge, lastConverted,
                 view, cleared, setup, editor, retryVars>>

\* App.tsx lines 90-94 (the button is rendered while latexSource is not empty)
handleClear ==
  /\ preview.mounted
  /\ latexSource # <<>>
  /\ latexSource' = <<>>
  /\ answerFile' = <<>>
  /\ gradingResult' = <<>>
  /\ debounceTimer' = TRUE
  /\ debounceClock' = Restarted
  /\ preview' = Rerendered(<<>>)
  /\ cleared' = {c.seq : c \in gradingCalls}
  /\ editor' = [editor EXCEPT !.caret = 0]
  /\ UNCHANGED <<activeQuestion, debouncedLatex, processing, gradingCalls,
                 convertCalls, scans, alerts, issued, started, lastSettled,
                 resolved, lastMerge, lastConverted, view, setup, retryVars>>

\* QuestionSetup.tsx line 201: the title field's onChange
EditTitle ==
  \E t \in Titles :
     /\ preview.mounted
     /\ t # activeQuestion.title
     /\ activeQuestion' = [activeQuestion EXCEPT !.title = t]
     /\ GradingEffect(debouncedLatex, activeQuestion')
     /\ UNCHANGED <<latexSource, debouncedLatex, debounceTimer, debounceClock,
                    answerFile, convertCalls, scans, alerts, started,
                    lastSettled, resolved, lastMerge, lastConverted, preview,
                    view, cleared, setup, editor, retryVars>>

StrSelectAlert == "Please select an image or PDF file."
StrUploadAlert == "Please upload an image or PDF file."

\* QuestionSetup.tsx lines 38-56: the object handed to onUpdate.  `||` keeps
\* the question's own value when the extracted one is falsy (undefined, "", 0).
MergeExtractedDefaulting(question, file, extracted) ==
  [question EXCEPT
     !.questionImage = <<[data |-> file.data, mimeType |-> file.type,
                          fileName |-> file.name]>>,
     !.id = extracted.id,
     !.title = IF extracted.title # <<>> THEN extracted.title ELSE @,
     !.description = IF extracted.description # <<>> THEN extracted.description ELSE @,
     !.totalMarks = IF extracted.totalMarks # 0 THEN extracted.totalMarks ELSE 10]
MergeExtracted(question, file, extracted) ==
  LET updatedQuestion ==
        [question EXCEPT
           !.questionImage = <<[data |-> file.data, mimeType |-> file.type,
                                fileName |-> file.name]>>]
  IN  [updatedQuestion EXCEPT
         !.title = IF extracted.title # <<>> THEN extracted.title ELSE @,
         !.description = IF extracted.description # <<>> THEN extracted.description ELSE @,
         !.totalMarks = IF extracted.totalMarks # 0 THEN extracted.totalMarks ELSE @]

\* QuestionSetup.tsx lines 32-66 and 83-98: setIsScanning(true), a try block
\* that only creates the reader and starts it (nothing in it is awaited), and
\* a finally with setIsScanning(false): both updates belong to the one change
\* event, so the flag the component renders after the handler is false
ScanningAfterSelection == FALSE

\* QuestionSetup.tsx lines 23-48: a file is chosen for the question scan; the
\* reader loads it and extractQuestionFromImage is called
handleScanQuestion ==
  \E f \in Files :
     /\ preview.mounted
     /\ IF ~AcceptedType(f)
          THEN /\ alerts' = alerts \cup {StrSelectAlert}
               /\ UNCHANGED <<scans, started>>
          ELSE /\ started.scan < MaxScans
               /\ scans' = scans \cup
                    {[seq |-> started.scan + 1, question |-> activeQuestion, file |-> f]}
               /\ started' = [started EXCEPT !.scan = @ + 1]
               /\ UNCHANGED alerts
     /\ setup' = [setup EXCEPT !.isScanning = ScanningAfterSelection]
     /\ UNCHANGED <<activeQuestion, latexSource, debouncedLatex, debounceTimer,
                    debounceClock, answerFile, gradingResult, processing,
                    gradingCalls, convertCalls, issued, lastSettled, resolved,
                    lastMerge, lastConverted, preview,
                    view, cleared, editor, retryVars>>

\* QuestionSetup.tsx lines 48-59: the extraction settles.  A rejection is
\* raised inside the reader's callback, where nothing catches it.
ExtractionSettles ==
  \E s \in scans : \E o \in Outcomes("extract", <<>>, uuidCount + 1) :
     /\ preview.mounted
     /\ scans' = scans \ {s}
     /\ IF o.kind = "value"
          THEN /\ activeQuestion' = MergeExtracted(s.question, s.file, o.value)
               /\ GradingEffect(debouncedLatex, activeQuestion')
               /\ uuidCount' = uuidCount + 1
               /\ lastMerge' = [seq |-> s.seq, extracted |-> o.value,
                                captured |-> s.question]
          ELSE UNCHANGED <<activeQuestion, gradingResult, processing,
                           gradingCalls, issued, uuidCount, lastMerge>>
     /\ UNCHANGED <<latexSource, debouncedLatex, debounceTimer, debounceClock,
                    answerFile, convertCalls, alerts, started, lastSettled,
                    resolved, lastConverted, preview,
                    view, cleared, setup, editor, retryLocals>>

\* FileUpload handleFile and App.tsx lines 74-79: an answer file is chosen
handleImageUpload ==
  \E f \in Files :
     /\ preview.mounted
     /\ IF ~AcceptedType(f)
          THEN /\ alerts' = alerts \cup {StrUploadAlert}
               /\ UNCHANGED <<processing, answerFile, convertCalls, started,
                              preview>>
          ELSE /\ started.upload < MaxUploads
               /\ processing' = [processing EXCEPT !.isConverting = TRUE, !.error = <<>>]
               /\ answerFile' = <<[data |-> f.data, mimeType |-> f.type]>>
               /\ preview' = Rerendered(answerFile')
               /\ convertCalls' = convertCalls \cup
                    {[seq |-> started.upload + 1, file |-> f]}
               /\ started' = [started EXCEPT !.upload = @ + 1]
               /\ UNCHANGED alerts
     /\ UNCHANGED <<activeQuestion, latexSource, debouncedLatex, debounceTimer,
                    debounceClock, gradingResult, gradingCalls, scans, issued,
                    lastSettled, resolved, lastMerge, lastConverted,
                    view, cleared, setup, editor, retryVars>>

\* App.tsx lines 83-87 without the catch storing the message
AfterConversionSilent(p, o) == [p EXCEPT !.isConverting = FALSE]

\* App.tsx lines 83-87: catch stores err.message, finally clears the flag
AfterConversion(p, o) ==
  IF o.kind = "value" THEN [p EXCEPT !.isConverting = FALSE]
  ELSE [p EXCEPT !.error = <<o.message>>, !.isConverting = FALSE]

\* App.tsx lines 79-87: the conversion settles
ConvertSettles ==
  \E c \in convertCalls : \E o \in Outcomes("convert", <<>>, 0) :
     /\ preview.mounted
     /\ convertCalls' = convertCalls \ {c}
     /\ processing' = AfterConversion(processing, o)
     /\ lastConverted' = [seq |-> c.seq, kind |-> o.kind]
     /\ IF o.kind = "value"
          THEN /\ latexSource' = o.value.text
               /\ debounceTimer' = (debounceTimer \/ o.value.text # latexSource)
               /\ debounceClock' =
                    IF o.value.text # latexSource THEN Restarted ELSE debounceClock
          ELSE UNCHANGED <<latexSource, debounceTimer, debounceClock>>
     /\ UNCHANGED <<activeQuestion, debouncedLatex, answerFile, gradingResult,
                    gradingCalls, scans, alerts, issued, started, lastSettled,
                    resolved, lastMerge, preview,
                    view, cleared, setup, editor, retryVars>>

\* QuestionSetup.tsx lines 74-98: a file is chosen for the solution scan; the
\* reader loads it and transcribeSolutionImage is called
handleScanSolution ==
  \E f \in Files :
     /\ preview.mounted
     /\ IF ~AcceptedType(f)
          THEN /\ alerts' = alerts \cup {StrSelectAlert}
               /\ setup' = setup
          ELSE /\ setup.started < MaxSetupCalls
               /\ setup' = [setup EXCEPT
                    !.isScanning = ScanningAfterSelection,
                    !.calls = @ \cup {[seq |-> setup.started + 1, op |-> "transcribe",
                                       field |-> "idealSolution",
                                       question |-> activeQuestion]},
                    !.started = @ + 1]
               /\ UNCHANGED alerts
     /\ UNCHANGED <<activeQuestion, latexSource, debouncedLatex, debounceTimer,
                    debounceClock, answerFile, gradingResult, processing,
                    gradingCalls, convertCalls, scans, issued, started,
                    lastSettled, resolved, lastMerge, lastConverted, preview,
                    view, cleared, editor, retryVars>>

\* QuestionSetup.tsx lines 86-92: the transcription settles; onUpdate gets
\* the question of the render in which the file was chosen.  A rejection is
\* raised inside the reader's callback, where nothing catches it.
TranscriptionSettles ==
  \E c \in setup.calls : \E o \in Outcomes("transcribe", <<>>, 0) :
     /\ preview.mounted
     /\ c.op = "transcribe"
     /\ IF o.kind = "value"
          THEN /\ activeQuestion' = [c.question EXCEPT !.idealSolution = o.value.text]
               /\ GradingEffect(debouncedLatex, activeQuestion')
               /\ setup' = [setup EXCEPT
                    !.calls = @ \ {c},
                    !.lastMerge = [seq |-> c.seq, op |-> c.op, field |-> c.field]]
          ELSE /\ setup' = [setup EXCEPT !.calls = @ \ {c}]
               /\ UNCHANGED <<activeQuestion, gradingResult, processing,
                              gradingCalls, issued>>
     /\ UNCHANGED <<latexSource, debouncedLatex, debounceTimer, debounceClock,
                    answerFile, convertCalls, scans, alerts, started,
                    lastSettled, resolved, lastMerge, lastConverted, preview,
                    view, cleared, editor, retryVars>>

\* QuestionSetup.tsx lines 101-106 and 222, 278: Format Math on one of the
\* two fields; the button is disabled while isFormatting, and an empty or
\* blank text returns before anything is set
handleMagicFormat ==
  \E field \in {"description", "idealSolution"} :
     /\ preview.mounted
     /\ ~setup.isFormatting
     /\ trim(activeQuestion[field]) # <<>>
     /\ setup.started < MaxSetupCalls
     /\ setup' = [setup EXCEPT
          !.isFormatting = TRUE,
          !.calls = @ \cup {[seq |-> setup.started + 1, op |-> "refine",
                             field |-> field, question |-> activeQuestion]},
          !.started = @ + 1]
     /\ UNCHANGED <<activeQuestion, latexSource, debouncedLatex, debounceTimer,
                    debounceClock, answerFile, gradingResult, processing,
                    gradingCalls, convertCalls, scans, alerts, issued, started,
                    lastSettled, resolved, lastMerge, lastConverted, preview,
                    view, cleared, editor, retryVars>>

\* QuestionSetup.tsx lines 107-118: refineTextToLatex settles; the catch only
\* logs, the finally clears isFormatting
FormatSettles ==
  \E c \in setup.calls :
    \E o \in Outcomes("refine", c.question[c.field], 0) :
     /\ preview.mounted
     /\ c.op = "refine"
     /\ IF o.kind = "value"
          THEN /\ activeQuestion' = [c.question EXCEPT ![c.field] = o.value.text]
               /\ GradingEffect(debouncedLatex, activeQuestion')
               /\ setup' = [setup EXCEPT
                    !.isFormatting = FALSE,
                    !.calls = @ \ {c},
                    !.lastMerge = [seq |-> c.seq, op |-> c.op, field |-> c.field]]
          ELSE /\ setup' = [setup EXCEPT !.isFormatting = FALSE, !.calls = @ \ {c}]
               /\ UNCHANGED <<activeQuestion, gradingResult, processing,
                              gradingCalls, issued>>
     /\ UNCHANGED <<latexSource, debouncedLatex, debounceTimer, debounceClock,
                    answerFile, convertCalls, scans, alerts, started,
                    lastSettled, resolved, lastMerge, lastConverted, preview,
                    view, cleared, editor, retryVars>>

(***************************************************************************)
(* SpecGrading: the submission text is edited, settles, is graded and is   *)
(* cleared while the question title is edited; grading calls overlap.      *)
(***************************************************************************)
NextGrading ==
  \/ EditLatex
  \/ Tick(DebounceDelay)
  \/ DebounceFire
  \/ GradingSettles
  \/ handleClear
  \/ EditTitle

SpecGrading == Init /\ [][NextGrading]_vars

(***************************************************************************)
(* SpecSetup: question files are scanned while the title is edited.        *)
(***************************************************************************)
NextSetup ==
  \/ handleScanQuestion
  \/ ExtractionSettles
  \/ EditTitle

SpecSetup == Init /\ [][NextSetup]_vars

(***************************************************************************)
(* SpecContext: the question is scanned, the solution key is scanned and   *)
(* the two texts are formatted while the title is edited.                  *)
(***************************************************************************)
NextContext ==
  \/ handleScanQuestion
  \/ ExtractionSettles
  \/ handleScanSolution
  \/ TranscriptionSettles
  \/ handleMagicFormat
  \/ FormatSettles
  \/ EditTitle

SpecContext == Init /\ [][NextContext]_vars

(***************************************************************************)
(* SpecUpload: answer files are uploaded, converted and cleared, until     *)
(* App is unmounted.                                                       *)
(***************************************************************************)
NextUpload ==
  \/ handleImageUpload
  \/ ConvertSettles
  \/ handleClear
  \/ Unmount

SpecUpload == Init /\ [][NextUpload]_vars

(***************************************************************************)
(* Properties of the question scan and of overlapping grading calls.       *)
(***************************************************************************)
\* the extraction answered {title: "", description: "X"} with no totalMarks
ScenarioExtracted(v) ==
  /\ "totalMarks" \notin v.has
  /\ v.totalMarks = 0
  /\ v.title = <<>>
  /\ v.description = <<"X">>

C10_LastResolvedWins ==
  [][(lastSettled' # lastSettled /\ lastSettled'.kind = "value")
       => /\ gradingResult' # <<>>
          /\ gradingResult'[1].seq = lastSettled'.seq]_vars

\* the result of the older call is displayed although the newer call, for
\* the newer text, had resolved before it
C10_Witness ==
  /\ gradingResult # <<>>
  /\ gradingResult[1].seq = 1
  /\ lastSettled = [seq |-> 1, kind |-> "value"]
  /\ 2 \in resolved
  /\ gradingResult[1].latex # debouncedLatex

(***************************************************************************)
(* What the grading panel shows (GradingPanel).                            *)
(***************************************************************************)
\* App.tsx line 301: the isStale prop
isStale == latexSource # debouncedLatex /\ Len(latexSource) > 0

\* GradingPanel lines 15-53: the spinner while isLoading, the placeholder
\* without a result, the result card otherwise
PanelShows ==
  IF processing.isGrading THEN "loading"
  ELSE IF gradingResult = <<>> THEN "ready" ELSE "result"

\* C11: a single result slot, and a result card on screen that was computed
\* for a text other than the present submission text is shown as stale.
C11_StaleUntilRegraded ==
  /\ Len(gradingResult) <= 1
  /\ (PanelShows = "result" /\ gradingResult[1].latex # latexSource) => isStale

\* the grading call for the new text "b" failed: the card of the old text
\* "a" is on screen, neither stale nor loading
C11_FailedRegrade ==
  /\ PanelShows = "result"
  /\ gradingResult[1].latex = <<"a">>
  /\ latexSource = <<"b">> /\ debouncedLatex = <<"b">>
  /\ lastSettled = [seq |-> 2, kind |-> "error"]
  /\ gradingCalls = {}
  /\ ~isStale

(***************************************************************************)
(* SpecDebounce: the submission text is edited and cleared while the clock *)
(* advances in steps shorter than the quiescence window.                   *)
(***************************************************************************)
NextDebounce ==
  \/ EditLatex
  \/ Tick(TickMs)
  \/ DebounceFire
  \/ handleClear
  \/ EditTitle

SpecDebounce == Init /\ [][NextDebounce]_vars

\* C12: a grading call is issued for the debounced text only, and the
\* debounced text is only ever set to a submission text that has stayed
\* unchanged for the whole window of 1500 ms: a text replaced before its
\* window elapsed is never graded.
C12_GradesOnlySettledText ==
  [][/\ (issued' # issued =>
           \A c \in gradingCalls' \ gradingCalls : c.latex = debouncedLatex')
     /\ (debouncedLatex' # debouncedLatex =>
           /\ debouncedLatex' = latexSource
           /\ debounceClock.quiet >= 1500)]_vars

\* "a" was replaced by "b" while its window was running; the one call that
\* was issued is for "b"
C12_Witness ==
  /\ debounceClock.cut = <<<<"a">>>>
  /\ debouncedLatex = <<"b">>
  /\ issued = 1
  /\ \A c \in gradingCalls : c.latex = <<"b">>
  /\ gradingCalls # {}

(***************************************************************************)
(* SpecErrors: answer files are uploaded and converted and the converted   *)
(* text is graded; any call may fail.                                      *)
(***************************************************************************)
NextErrors ==
  \/ handleImageUpload
  \/ ConvertSettles
  \/ Tick(DebounceDelay)
  \/ DebounceFire
  \/ GradingSettles

SpecErrors == Init /\ [][NextErrors]_vars

\* the grading call c failed in this step
GradingFailed(c) ==
  /\ c \in gradingCalls /\ c \notin gradingCalls'
  /\ lastSettled' = [seq |-> c.seq, kind |-> "error"]

\* C13 as stated: a failed grading call leaves the displayed result, the
\* submission text and the attached file as they were, clears the in-flight
\* flag, and leaves the error slot as it was before the call.
C13_FailureRestoresErrorSlot ==
  [][\A c \in gradingCalls :
       GradingFailed(c) =>
         /\ gradingResult' = gradingResult
         /\ latexSource' = latexSource
         /\ answerFile' = answerFile
         /\ ~processing'.isGrading
         /\ processing'.error = c.errorBefore]_vars

\* C13 as amended: the failure of a grading call changes nothing but the
\* in-flight flag, which becomes false: the displayed result, the
\* submission text, the attached file and the error slot stay as the
\* failure found them (the call emptied the error slot when it started).
C13_FailureChangesOnlyFlag ==
  [][\A c \in gradingCalls :
       GradingFailed(c) =>
         /\ gradingResult' = gradingResult
         /\ latexSource' = latexSource
         /\ answerFile' = answerFile
         /\ debouncedLatex' = debouncedLatex
         /\ activeQuestion' = activeQuestion
         /\ processing' = [processing EXCEPT !.isGrading = FALSE]]_vars

\* the second grading call has failed: the result of the first call is
\* still displayed, next to the submission text and the attached file
C13_Witness ==
  /\ lastSettled = [seq |-> 2, kind |-> "error"]
  /\ latexSource # <<>>
  /\ answerFile # <<>>
  /\ ~processing.isGrading
  /\ gradingResult # <<>>
  /\ gradingResult[1].seq = 1
  /\ gradingCalls = {}

\* the messages convertImageToLatex may reject with
ConversionFailures ==
  {o.message : o \in {x \in Outcomes("convert", <<>>, 0) : x.kind = "error"}}

\* C14 as stated: every failed conversion call and every failed grading
\* call stores its failure message in the error slot, which is rendered
\* when it is not empty.
C14_EveryFailureFillsSlot ==
  [][/\ (lastConverted' # lastConverted /\ lastConverted'.kind = "error")
          => /\ processing'.error # <<>>
             /\ processing'.error[1] \in ConversionFailures
     /\ (lastSettled' # lastSettled /\ lastSettled'.kind = "error")
          => processing'.error # <<>>]_vars

\* C14 as amended: a failed conversion call stores its failure message,
\* which is never empty, in the error slot, and the slot is rendered while
\* it is not empty; a failed grading call is only logged and leaves the
\* slot as it is.
C14_ConversionFailureFillsSlot ==
  [][/\ (lastConverted' # lastConverted /\ lastConverted'.kind = "error")
          => /\ processing'.error # <<>>
             /\ processing'.error[1] \in ConversionFailures
             /\ processing'.error[1] # <<>>
             /\ ~processing'.isConverting
             /\ latexSource' = latexSource
     /\ (lastSettled' # lastSettled /\ lastSettled'.kind = "error")
          => processing'.error = processing.error]_vars

\* the usage-limit message of a failed conversion is in the slot after a
\* grading call has failed without touching it
C14_Witness ==
  /\ lastConverted.kind = "error"
  /\ processing.error = <<UsageLimitMessage(Description("convert"))>>
  /\ lastSettled.kind = "error"
  /\ gradingResult = <<>>
  /\ gradingCalls = {} /\ convertCalls = {}

(***************************************************************************)
(* Properties of the PDF preview URL.                                      *)
(***************************************************************************)
\* C15: the only object URL of the preview that is not revoked is the
\* present pdfUrl, so at most one is unrevoked after any uploads and
\* clears, and none is after App is unmounted.
C15_PreviewUrlsRevoked ==
  /\ preview.live \subseteq {preview.pdfUrl[k] : k \in 1..Len(preview.pdfUrl)}
  /\ Cardinality(preview.live) <= 1
  /\ ~preview.mounted => preview.live = {}

\* two PDF files were previewed, one after the other, and App was unmounted
\* while the second preview was open
C15_Witness ==
  /\ preview.created = 2
  /\ preview.pdfUrl = <<2>>
  /\ ~preview.mounted
  /\ preview.live = {}

(***************************************************************************)
(* SpecIntake: files are chosen for the answer and for the question scan.  *)
(***************************************************************************)
NextIntake ==
  \/ handleImageUpload
  \/ handleScanQuestion
  \/ ExtractionSettles

SpecIntake == Init /\ [][NextIntake]_vars

\* C16: a step that raises the file-type alert changes nothing else, and no
\* file of another type than image/* or application/pdf is ever attached as
\* the answer, attached to the question or handed to a service call.
C16_WrongTypeRejected ==
  [][/\ alerts' # alerts =>
          /\ alerts' \subseteq {StrUploadAlert, StrSelectAlert}
          /\ UNCHANGED <<latexSource, answerFile, activeQuestion, processing,
                         gradingResult, convertCalls, scans, gradingCalls,
                         started, issued, debouncedLatex, preview>>
     /\ \A c \in convertCalls' \cup scans' : c.file.type # MimeText
     /\ answerFile' # <<>> => answerFile'[1].mimeType # MimeText
     /\ activeQuestion'.questionImage # <<>>
          => activeQuestion'.questionImage[1].mimeType # MimeText]_vars

\* a text file was refused both as the answer and as the question, while
\* a conversion and a scan of accepted files were in flight
C16_Witness ==
  /\ alerts = {StrUploadAlert, StrSelectAlert}
  /\ convertCalls # {} /\ scans # {}
  /\ processing.isConverting
  /\ answerFile # <<>>

(***************************************************************************)
(* The renderers: FormattedText (mixed text) and LatexPreview (document).  *)
(* Strings are sequences of characters. The typesetting engine is          *)
(* window.katex, a library outside this repository: it is absent, or       *)
(* loaded on a standards-mode page, or loaded on a quirks-mode page, and   *)
(* it rejects markup that holds a dollar sign or unbalanced braces.        *)
(***************************************************************************)
Engines == {"absent", "standards", "quirks"}
StrParseError ==
  <<"K","a","T","e","X"," ","p","a","r","s","e"," ","e","r","r","o","r">>
StrQuirksError ==
  <<"K","a","T","e","X"," ","d","o","e","s","n","'","t"," ","w","o","r","k",
    " ","i","n"," ","q","u","i","r","k","s"," ","m","o","d","e",".">>
StrQuirksMode == <<"q","u","i","r","k","s"," ","m","o","d","e">>

\* what the engine throws for the markup: <<>> if it typesets it
ParseError(content) ==
  LET Count(c) == Cardinality({k \in 1..Len(content) : content[k] = c})
  IN  IF Count("{") = Count("}") /\ Count("$") = 0 THEN <<>> ELSE StrParseError

\* String.prototype.slice(n, -n)
Slice(s, n) == SubSeq(s, n + 1, Len(s) - n)

\* the least j >= k at which t occurs in s, or 0
IndexFrom(s, t, k) ==
  LET J == {j \in k..(Len(s) - Len(t) + 1) : SubSeq(s, j, j + Len(t) - 1) = t}
  IN  IF J = {} THEN 0 ELSE CHOOSE j \in J : \A i \in J : j <= i

\* open[\s\S]*?close matched at k: the index of its last character, or 0
PairEnd(s, k, open, close) ==
  IF k + Len(open) - 1 > Len(s) \/ SubSeq(s, k, k + Len(open) - 1) # open THEN 0
  ELSE LET j == IndexFrom(s, close, k + Len(open))
       IN  IF j = 0 THEN 0 ELSE j + Len(close) - 1

\* \$[^stop]+\$ matched at k, for a set stop that holds "$"
DollarEnd(s, k, stop) ==
  LET J == {j \in (k + 1)..Len(s) : s[j] \in stop}
      j == IF J = {} THEN 0 ELSE CHOOSE m \in J : \A i \in J : m <= i
  IN  IF s[k] = "$" /\ j >= k + 2 /\ s[j] = "$" THEN j ELSE 0

\* the first alternative, in order, that matches
FirstMatch(ends) ==
  LET K == {k \in 1..Len(ends) : ends[k] # 0}
  IN  IF K = {} THEN 0 ELSE ends[CHOOSE k \in K : \A i \in K : k <= i]

\* String.prototype.split with a regular expression that is one capturing
\* group: text, match, text, ..., text. ends[k] is the index of the last
\* character of the match that starts at k, or 0 if none does.
RECURSIVE SplitAt(_, _, _, _)
SplitAt(s, from, k, ends) ==
  IF k > Len(s) THEN <<SubSeq(s, from, Len(s))>>
  ELSE IF ends[k] = 0 THEN SplitAt(s, from, k + 1, ends)
  ELSE <<SubSeq(s, from, k - 1), SubSeq(s, k, ends[k])>>
         \o SplitAt(s, ends[k] + 1, ends[k] + 1, ends)

RECURSIVE Flatten(_)
Flatten(ss) == IF ss = <<>> THEN <<>> ELSE Head(ss) \o Flatten(Tail(ss))

\* one rendered element: how it is shown (typeset "math", literal "text",
\* literal "code", "error" indicator, "empty" span, "placeholder"), what it
\* shows, the failure reason it shows, and how it came about: the token
\* kind, the markup handed to the typesetting call, whether the call threw
Element(kind, content, reason, origin, typeset, failed) ==
  [kind |-> kind, content |-> content, reason |-> reason, origin |-> origin,
   typeset |-> typeset, failed |-> failed]

TextElement(content) == Element("text", content, <<>>, "text", <<>>, FALSE)

MathRenderer(content, displayMode, fallback, engine) ==
  LET origin  == IF fallback THEN "heuristic" ELSE "explicit"
      call    == <<[content |-> content, displayMode |-> displayMode]>>
  IN  IF engine = "absent"
        THEN Element("code", content, <<>>, origin, <<>>, FALSE)
      ELSE IF ParseError(content) = <<>>
        THEN Element("math", content, <<>>, origin, call, FALSE)
      ELSE IF fallback
        THEN Element("text", content, <<>>, origin, call, TRUE)
      ELSE Element("error", content, <<>>, origin, call, TRUE)

Letters == {LowerCase[k] : k \in 1..Len(LowerCase)} \cup {UpperCase[k] : k \in 1..Len(UpperCase)}
WordChars == Letters \cup {"0","1","2","3","4","5","6","7","8","9","_"}

\* the index of the last character of the longest run of characters of
\* class that starts at k (k - 1 if there is none)
RECURSIVE RunEnd(_, _, _)
RunEnd(s, k, class) ==
  IF k <= Len(s) /\ s[k] \in class THEN RunEnd(s, k + 1, class) ELSE k - 1

\* (?:\{.*?\})* matched after position a: the index of its last character
RECURSIVE GroupsEnd(_, _)
GroupsEnd(s, a) ==
  LET j == IF a + 1 <= Len(s) /\ s[a + 1] = "{" THEN IndexFrom(s, <<"}">>, a + 2) ELSE 0
  IN  IF j = 0 \/ \E i \in (a + 2)..(j - 1) : s[i] \in {"\n", "\r"} THEN a
      ELSE GroupsEnd(s, j)

\* implicitMathRegex matched at k. Its inputs here hold no "=" and no
\* digit, so of its five alternatives only the command and the
\* exponent/subscript ones can match, both without their "= value" tail.
ImplicitMatchEnd(s, k) ==
  LET Script == WordChars \cup {"{", "}", "-"}
      command ==
        IF s[k] = "\\" /\ RunEnd(s, k + 1, Letters) > k
          THEN GroupsEnd(s, RunEnd(s, k + 1, Letters)) ELSE 0
      M == {m \in k..RunEnd(s, k + 1, WordChars) :
              /\ m + 2 <= Len(s)
              /\ s[m + 1] \in {"^", "_"}
              /\ s[m + 2] \in Script}
      scripted ==
        IF s[k] \in Letters /\ M # {}
          THEN RunEnd(s, (CHOOSE m \in M : \A i \in M : i <= m) + 2, Script)
          ELSE 0
  IN  FirstMatch(<<command, scripted>>)

TextWithImplicitMath(content, engine) ==
  LET parts == SplitAt(content, 1, 1,
                       [k \in 1..Len(content) |-> ImplicitMatchEnd(content, k)])
      Render(subPart) ==
        LET trimmed     == trim(subPart)
            hasMathChar == \E k \in 1..Len(trimmed) : trimmed[k] \in {"=", "^", "_", "\\"}
            isEnglish   == \A k \in 1..Len(trimmed) :
                             trimmed[k] \in Letters \cup WhiteSpace \cup {".", ","}
            Punct       == {".", ",", ":", ";"}
            cut         == CHOOSE c \in 0..Len(subPart) :
                             /\ \A i \in (c + 1)..Len(subPart) : subPart[i] \in Punct
                             /\ c > 0 => subPart[c] \notin Punct
            punctuation == SubSeq(subPart, cut + 1, Len(subPart))
        IN  IF trimmed = <<>> THEN <<TextElement(subPart)>>
            ELSE IF hasMathChar /\ ~isEnglish /\ Len(trimmed) > 1
              THEN <<MathRenderer(SubSeq(subPart, 1, cut), FALSE, TRUE, engine)>>
                     \o (IF punctuation = <<>> THEN <<>> ELSE <<TextElement(punctuation)>>)
            ELSE <<TextElement(subPart)>>
  IN  Flatten([k \in 1..Len(parts) |-> Render(parts[k])])

\* delimiterRegex matched at k
DelimiterMatchEnd(s, k) ==
  FirstMatch(<<PairEnd(s, k, <<"$","$">>, <<"$","$">>),
               PairEnd(s, k, <<"\\","[">>, <<"\\","]">>),
               PairEnd(s, k, <<"\\","(">>, <<"\\",")">>),
               DollarEnd(s, k, {"$"})>>)

\* the delimiters taken off a part that starts like math
CleanContentWide(part) == Slice(part, 2)
CleanContent(part) ==
  IF startsWith(part, <<"$","$">>) THEN Slice(part, 2)
  ELSE IF startsWith(part, <<"\\","[">>) THEN Slice(part, 2)
  ELSE IF startsWith(part, <<"\\","(">>) THEN Slice(part, 2)
  ELSE IF startsWith(part, <<"$">>) THEN Slice(part, 1)
  ELSE part

FormattedText(text, engine) ==
  LET parts == SplitAt(text, 1, 1,
                       [k \in 1..Len(text) |-> DelimiterMatchEnd(text, k)])
      Render(part) ==
        LET isDisplayMath == startsWith(part, <<"$","$">>) \/ startsWith(part, <<"\\","[">>)
            isInlineMath  == startsWith(part, <<"$">>) \/ startsWith(part, <<"\\","(">>)
        IN  IF isDisplayMath \/ isInlineMath
              THEN <<MathRenderer(CleanContent(part), isDisplayMath, FALSE, engine)>>
              ELSE TextWithImplicitMath(part, engine)
  IN  IF text = <<>> THEN <<>>
      ELSE Flatten([k \in 1..Len(parts) |-> Render(parts[k])])

StrDocument == <<"d","o","c","u","m","e","n","t">>
StrDocumentClass ==
  <<"\\","d","o","c","u","m","e","n","t","c","l","a","s","s">>
StrBegin == <<"\\","b","e","g","i","n">>
StrEnd == <<"\\","e","n","d">>
EnvNames ==
  {<<"e","q","u","a","t","i","o","n">>, <<"a","l","i","g","n">>,
   <<"g","a","t","h","e","r">>, <<"a","l","i","g","n","a","t">>,
   <<"f","l","a","l","i","g","n">>, <<"m","u","l","t","l","i","n","e">>}

\* word\s*\{name\} matched at k without regard to case, name one of names
\* and, with star, an optional "*" after it: the index of its "}", or 0
TagEnd(s, k, word, names, star) ==
  LET p       == RunEnd(s, k + Len(word), WhiteSpace) + 1
      e       == IndexFrom(s, <<"}">>, p)
      Allowed == {<<"{">> \o n \o st \o <<"}">> :
                    n \in names, st \in (IF star THEN {<<>>, <<"*">>} ELSE {<<>>})}
  IN  IF /\ k + Len(word) - 1 <= Len(s)
         /\ s[k] = Head(word)
         /\ toLowerCase(SubSeq(s, k, k + Len(word) - 1)) = word
         /\ e # 0
         /\ toLowerCase(SubSeq(s, p, e)) \in Allowed
        THEN e ELSE 0

\* the least j >= k at which the closing tag matches, or 0
CloseFrom(s, k, names, star) ==
  LET J == {j \in k..Len(s) : TagEnd(s, j, StrEnd, names, star) # 0}
  IN  IF J = {} THEN 0 ELSE CHOOSE j \in J : \A i \in J : j <= i

\* MATH_REGEX matched at k
MathMatchEnd(s, k) ==
  LET open  == TagEnd(s, k, StrBegin, EnvNames, TRUE)
      close == IF open = 0 THEN 0 ELSE CloseFrom(s, open + 1, EnvNames, TRUE)
  IN  FirstMatch(<<PairEnd(s, k, <<"$","$">>, <<"$","$">>),
                   PairEnd(s, k, <<"\\","[">>, <<"\\","]">>),
                   IF close = 0 THEN 0 ELSE TagEnd(s, close, StrEnd, EnvNames, TRUE),
                   DollarEnd(s, k, {"$", "\n"})>>)

endsWith(s, suffix) ==
  Len(s) >= Len(suffix) /\ SubSeq(s, Len(s) - Len(suffix) + 1, Len(s)) = suffix

\* the markup MathBlock hands to katex.render
StripDelimiters(content) ==
  LET cleanContent == trim(content)
      Wrapped(open, close) ==
        startsWith(cleanContent, open) /\ endsWith(cleanContent, close)
  IN  IF Wrapped(<<"$","$">>, <<"$","$">>) THEN Slice(cleanContent, 2)
      ELSE IF Wrapped(<<"\\","[">>, <<"\\","]">>) THEN Slice(cleanContent, 2)
      ELSE IF Wrapped(<<"$">>, <<"$">>) /\ ~startsWith(cleanContent, <<"$","$">>)
        THEN Slice(cleanContent, 1)
      ELSE cleanContent

\* what katex.render throws: it refuses to work on a quirks-mode page
RenderError(cleanContent, engine) ==
  IF engine = "quirks" THEN StrQuirksError ELSE ParseError(cleanContent)

\* without the engine the effect does nothing and the span stays empty
MathBlock(content, displayMode, engine) ==
  LET cleanContent == StripDelimiters(content)
      error        == RenderError(cleanContent, engine)
      call         == <<[content |-> cleanContent, displayMode |-> displayMode]>>
  IN  IF engine = "absent"
        THEN Element("empty", <<>>, <<>>, "explicit", <<>>, FALSE)
      ELSE IF error = <<>>
        THEN Element("math", cleanContent, <<>>, "explicit", call, FALSE)
      ELSE Element("error", content,
                   IF includes(error, StrQuirksMode) THEN <<>> ELSE error,
                   "explicit", call, TRUE)

getRenderableContent(fullLatex) ==
  LET Doc    == {StrDocument}
      B      == {k \in 1..Len(fullLatex) : TagEnd(fullLatex, k, StrBegin, Doc, FALSE) # 0}
      begin  == CHOOSE k \in B : \A i \in B : k <= i
      from   == TagEnd(fullLatex, begin, StrBegin, Doc, FALSE) + 1
      end    == CloseFrom(fullLatex, from, Doc, FALSE)
      inner  == SubSeq(fullLatex, from, end - 1)
      Later  == {k \in B : k >= from}
      upto   == IF Later = {} THEN Len(fullLatex)
                ELSE (CHOOSE k \in Later : \A i \in Later : k <= i) - 1
      split1 == SubSeq(fullLatex, from, upto)
      cut    == CloseFrom(split1, 1, Doc, FALSE)
  IN  IF fullLatex = <<>> THEN <<>>
      ELSE IF B # {} /\ end # 0 /\ inner # <<>> THEN trim(inner)
      ELSE IF includes(fullLatex, StrDocumentClass) /\ B # {} /\ split1 # <<>>
        THEN IF cut = 0 THEN split1 ELSE SubSeq(split1, 1, cut - 1)
      ELSE fullLatex

LatexPreview(latex, engine) ==
  LET content == getRenderableContent(latex)
      parts   == SplitAt(content, 1, 1,
                         [k \in 1..Len(content) |-> MathMatchEnd(content, k)])
      Render(part) ==
        LET p == RunEnd(part, Len(StrBegin) + 1, WhiteSpace) + 1
        IN  IF part = <<>> THEN <<>>
            ELSE IF \/ startsWith(part, <<"$","$">>)
                    \/ startsWith(part, <<"\\","[">>)
                    \/ startsWith(part, StrBegin) /\ p <= Len(part) /\ part[p] = "{"
              THEN <<MathBlock(part, TRUE, engine)>>
            ELSE IF startsWith(part, <<"$">>)
              THEN <<MathBlock(part, FALSE, engine)>>
            ELSE <<TextElement(part)>>
  IN  IF trim(content) = <<>>
        THEN <<Element("placeholder", <<>>, <<>>, "text", <<>>, FALSE)>>
      ELSE Flatten([k \in 1..Len(parts) |-> Render(parts[k])])

(***************************************************************************)
(* The texts given to the renderers: up to MaxPieces pieces of markup put  *)
(* together, and up to MaxDocPieces pieces of a document.                  *)
(***************************************************************************)
MaxPieces == 3
MaxDocPieces == 4
RenderPieces ==
  {<<"$">>, <<"$","x","$">>, <<"x","^","{">>, <<"x">>, <<"}">>, <<" ">>,
   <<".">>, <<"\n">>, <<"\\","(">>, <<"\\",")">>}
DocPieces ==
  {StrDocumentClass, StrBegin \o <<"{">> \o StrDocument \o <<"}">>,
   StrEnd \o <<"{">> \o StrDocument \o <<"}">>, <<" ">>, <<"x">>}
RenderInputs == {Flatten(ps) : ps \in SeqsUpTo(RenderPieces, MaxPieces)}
DocInputs == {Flatten(ps) : ps \in SeqsUpTo(DocPieces, MaxDocPieces)}

Rendered(component, input, engine, elements) ==
  [component |-> component, input |-> input, engine |-> engine,
   elements |-> elements, body |-> <<>>]

RenderFormattedText ==
  /\ view.component = "none"
  /\ \E text \in RenderInputs, engine \in Engines :
       view' = Rendered("FormattedText", text, engine, FormattedText(text, engine))
  /\ UNCHANGED <<retryVars, activeQuestion, latexSource, debouncedLatex,
                 debounceTimer, debounceClock, answerFile, gradingResult,
                 processing, gradingCalls, convertCalls, scans, alerts,
                 issued, started, lastSettled, resolved, lastMerge,
                 lastConverted, preview, cleared, setup, editor>>

RenderMathBlock ==
  /\ view.component = "none"
  /\ \E content \in RenderInputs, displayMode \in BOOLEAN, engine \in Engines :
       view' = Rendered("MathBlock", content, engine,
                        <<MathBlock(content, displayMode, engine)>>)
  /\ UNCHANGED <<retryVars, activeQuestion, latexSource, debouncedLatex,
                 debounceTimer, debounceClock, answerFile, gradingResult,
                 processing, gradingCalls, convertCalls, scans, alerts,
                 issued, started, lastSettled, resolved, lastMerge,
                 lastConverted, preview, cleared, setup, editor>>

RenderLatexPreview ==
  /\ view.component = "none"
  /\ \E latex \in RenderInputs \cup DocInputs, engine \in Engines :
       view' = [Rendered("LatexPreview", latex, engine, LatexPreview(latex, engine))
                  EXCEPT !.body = getRenderableContent(latex)]
  /\ UNCHANGED <<retryVars, activeQuestion, latexSource, debouncedLatex,
                 debounceTimer, debounceClock, answerFile, gradingResult,
                 processing, gradingCalls, convertCalls, scans, alerts,
                 issued, started, lastSettled, resolved, lastMerge,
                 lastConverted, preview, cleared, setup, editor>>

NextRender == RenderFormattedText \/ RenderMathBlock \/ RenderLatexPreview
SpecRender == Init /\ [][NextRender]_vars

(***************************************************************************)
(* Claims about the renderers.                                             *)
(***************************************************************************)
\* the typesetting calls of the last rendering, in order
TypesetCalls ==
  Flatten([k \in 1..Len(view.elements) |-> view.elements[k].typeset])

\* is s one "$", a non-empty text without "$", and one "$"
DollarWrapped(s) ==
  /\ Len(s) >= 3
  /\ s[1] = "$" /\ s[Len(s)] = "$"
  /\ \A k \in 2..(Len(s) - 1) : s[k] # "$"

\* C17: for a text that is a matched $...$ pair around an inner string,
\* FormattedText, MathBlock and LatexPreview, with the engine loaded, make
\* exactly one typesetting call, and its markup is exactly the inner string:
\* the text without its first and its last character.
C17_DollarPairStripped ==
  (view.component # "none" /\ view.engine # "absent" /\ DollarWrapped(view.input))
    => /\ Len(TypesetCalls) = 1
       /\ TypesetCalls[1].content = SubSeq(view.input, 2, Len(view.input) - 1)

C17_Witness ==
  /\ view.component = "FormattedText"
  /\ view.input = <<"$", "x", "^", "{", "$">>
  /\ TypesetCalls = <<[content |-> <<"x", "^", "{">>, displayMode |-> FALSE]>>

\* C18 (as claimed): for a document that holds a \begin{document} ...
\* \end{document} pair the preview body is exactly the text between the
\* pair, trimmed, also when that text is empty or only white space; for a
\* document without the pair it is the whole text.
C18_BodyIsInnerTrimmed ==
  view.component = "LatexPreview" =>
    LET s     == view.input
        Doc   == {StrDocument}
        B     == {k \in 1..Len(s) : TagEnd(s, k, StrBegin, Doc, FALSE) # 0}
        begin == CHOOSE k \in B : \A i \in B : k <= i
        from  == TagEnd(s, begin, StrBegin, Doc, FALSE) + 1
        end   == CloseFrom(s, from, Doc, FALSE)
    IN  IF B # {} /\ end # 0
          THEN view.body = trim(SubSeq(s, from, end - 1))
          ELSE view.body = s

\* C19 (as claimed): on a standards-mode page, a heuristic match whose
\* rendering fails is shown as its literal text, an explicit-delimiter match
\* whose rendering fails is shown as an error indicator with the offending
\* source and the failure reason, and every token whose rendering does not
\* fail is typeset.
C19_FallbackPolicy ==
  (view.component \in {"FormattedText", "LatexPreview"} /\ view.engine = "standards")
    => \A k \in 1..Len(view.elements) :
         LET e == view.elements[k]
         IN  /\ (e.failed /\ e.origin = "heuristic") => e.kind = "text"
             /\ (e.failed /\ e.origin = "explicit")
                  => e.kind = "error" /\ e.content # <<>> /\ e.reason # <<>>
             /\ (~e.failed /\ e.origin # "text") => e.kind = "math"

\* C20 (as claimed): without the engine every math token, of FormattedText
\* and of LatexPreview, is shown as literal source in code style.
C20_LiteralWithoutEngine ==
  (view.component \in {"FormattedText", "LatexPreview"} /\ view.engine = "absent")
    => \A k \in 1..Len(view.elements) :
         view.elements[k].origin # "text" => view.elements[k].kind = "code"

(***************************************************************************)
(* Claims about the agreement of the two error classifications.            *)
(***************************************************************************)
\* C24 (as claimed): every error that the loop classes as quota-exceeded
\* is classed so by the final classification too, and the other way round;
\* when the retries are exhausted on such an error the failure raised is
\* the usage-limit message.
C24_ClassificationsAgree ==
  /\ \A k \in 1..Len(trace[1]) :
       ~trace[1][k].ok =>
         (isQuota(trace[1][k].err) <=> FinalIsQuota(trace[1][k].err))
  /\ (pc[1] = "thrown" /\ calls[1] = maxRetries + 1 /\ isQuota(LastFailure(trace[1])))
       => result[1].message = UsageLimitMessage(Description(op[1]))

(***************************************************************************)
(* Claims about overlapping grading calls.                                 *)
(***************************************************************************)
\* C25 (as claimed): isGrading is true in every state in which at least
\* one grading call is in flight, also when calls overlap and one of them
\* settles before the others.
C25_FlagCoversCallsInFlight ==
  gradingCalls # {} => processing.isGrading

(***************************************************************************)
(* Claims about the segments of FormattedText and the grading trigger.     *)
(***************************************************************************)
\* C29 (as claimed): FormattedText treats a segment as explicit math, and
\* strips delimiters from it, only if a complete delimiter pair matched it
\* in pass 1: a text in which no pair matches yields no explicit-math
\* element, and what its elements show, put together, is the whole text.
C29_OnlyPairsAreStripped ==
  (/\ view.component = "FormattedText"
   /\ \A k \in 1..Len(view.input) : DelimiterMatchEnd(view.input, k) = 0)
    => /\ \A k \in 1..Len(view.elements) : view.elements[k].origin # "explicit"
       /\ Flatten([k \in 1..Len(view.elements) |-> view.elements[k].content])
            = view.input

\* C30 (as claimed): a grading call is issued only in a step in which the
\* debounced submission text changes, that is, when the text has settled;
\* a change of the question context alone issues none.
C30_IssuedOnlyWhenTextSettles ==
  [][issued' > issued => debouncedLatex' # debouncedLatex]_vars

(***************************************************************************)
(* Claims about Clear.                                                     *)
(***************************************************************************)
\* C26 (as claimed): a grading call that was in flight when Clear ran
\* brings no result back: when it settles, the displayed grading result,
\* null since the Clear unless a later call has resolved, stays as it is.
C26_ClearedStaysCleared ==
  [][(lastSettled' # lastSettled /\ lastSettled'.seq \in cleared)
       => gradingResult' = gradingResult]_vars


(***************************************************************************)
(* Claims about the calls of the question panel.                           *)
(***************************************************************************)
\* C27 (as claimed): when the result of a question scan, a solution scan or
\* a Format Math call is merged, only the fields the call produced change:
\* every other field of the question keeps the value it had just before
\* the merge, edits made while the call was in flight included.
C27_MergeKeepsLatestEdits ==
  [][/\ (lastMerge' # lastMerge) =>
          /\ lastMerge'.extracted.title = <<>> =>
               activeQuestion'.title = activeQuestion.title
          /\ lastMerge'.extracted.description = <<>> =>
               activeQuestion'.description = activeQuestion.description
          /\ lastMerge'.extracted.totalMarks = 0 =>
               activeQuestion'.totalMarks = activeQuestion.totalMarks
          /\ activeQuestion'.idealSolution = activeQuestion.idealSolution
     /\ (setup'.lastMerge # setup.lastMerge) =>
          \A f \in {"title", "description", "totalMarks", "idealSolution",
                    "questionImage"} \ {setup'.lastMerge.field} :
             activeQuestion'[f] = activeQuestion[f]]_vars

\* C28 (as claimed): while the extraction of a chosen question file or the
\* transcription of a chosen solution file has not completed, isScanning
\* is true.
C28_ScanningUntilCompleted ==
  (scans # {} \/ \E c \in setup.calls : c.op = "transcribe")
    => setup.isScanning


(***************************************************************************)
(* The grading request (gradeLatexSubmission, lines 262-305).              *)
(***************************************************************************)
\* lines 262-286: the values the prompt template interpolates
promptText(latex, context) ==
  [template |-> "grading", title |-> context.title,
   description |-> context.description,
   idealSolution |-> context.idealSolution,
   totalMarks |-> context.totalMarks, latexSource |-> latex]

\* line 299: the fixed text pushed after the image
ReferenceText == [template |-> "reference"]

\* the image parts pushed after the prompt text
contentPartsTextFirst(latex, context) ==
  <<[kind |-> "text", text |-> promptText(latex, context)]>>
  \o (IF context.questionImage # <<>>
        THEN <<[kind |-> "inlineData",
                inlineData |-> [mimeType |-> context.questionImage[1].mimeType,
                                data |-> context.questionImage[1].data]],
               [kind |-> "text", text |-> ReferenceText]>>
        ELSE <<>>)

\* lines 288-302: contentParts as handed to generateContent
contentParts(latex, context) ==
  (IF context.questionImage # <<>>
     THEN <<[kind |-> "inlineData",
             inlineData |-> [mimeType |-> context.questionImage[1].mimeType,
                             data |-> context.questionImage[1].data]],
            [kind |-> "text", text |-> ReferenceText]>>
     ELSE <<>>)
  \o <<[kind |-> "text", text |-> promptText(latex, context)]>>

(***************************************************************************)
(* SpecRequest: a question paper is scanned and the submission text is     *)
(* typed and graded, so that grading requests go out with and without a    *)
(* reference image.                                                        *)
(***************************************************************************)
NextRequest ==
  \/ EditLatex
  \/ Tick(DebounceDelay)
  \/ DebounceFire
  \/ handleScanQuestion
  \/ ExtractionSettles

SpecRequest == Init /\ [][NextRequest]_vars

\* C21: the request of every grading call in flight ends with the text part
\* that carries the grading instructions; when the question has a reference
\* image the first part is that image (its mime type and data) and no other
\* part is an image; when it has none the instructions are the only part.
C21_ImageFirstInstructionsLast ==
  \A c \in gradingCalls :
     LET parts == contentParts(c.latex, c.context)
         last == parts[Len(parts)]
     IN  /\ last.kind = "text"
         /\ last.text = promptText(c.latex, c.context)
         /\ IF c.context.questionImage # <<>>
              THEN /\ Len(parts) > 1
                   /\ parts[1].kind = "inlineData"
                   /\ parts[1].inlineData.mimeType = c.context.questionImage[1].mimeType
                   /\ parts[1].inlineData.data = c.context.questionImage[1].data
                   /\ \A k \in 2..Len(parts) : parts[k].kind = "text"
              ELSE Len(parts) = 1

C21_Witness ==
  \E c \in gradingCalls : \E e \in gradingCalls :
     /\ c.context.questionImage # <<>>
     /\ c.context.questionImage[1].mimeType = MimePdf
     /\ Len(contentParts(c.latex, c.context)) = 3
     /\ e.context.questionImage = <<>>


(***************************************************************************)
(* LatexEditor: the textarea, its caret and the autocomplete popup.  The   *)
(* value of the editor is latexSource; the caret is selectionStart (the    *)
(* number of characters before it).                                        *)
(***************************************************************************)
\* keys pressed and clicks made in one run of the editor
MaxEditorSteps == 4

\* LatexEditor.tsx lines 12-21
COMMON_COMMANDS ==
  <<<<"\\","a","l","p","h","a">>,
    <<"\\","b","e","t","a">>,
    <<"\\","g","a","m","m","a">>,
    <<"\\","d","e","l","t","a">>,
    <<"\\","e","p","s","i","l","o","n">>,
    <<"\\","t","h","e","t","a">>,
    <<"\\","l","a","m","b","d","a">>,
    <<"\\","p","i">>,
    <<"\\","s","i","g","m","a">>,
    <<"\\","p","h","i">>,
    <<"\\","o","m","e","g","a">>,
    <<"\\","D","e","l","t","a">>,
    <<"\\","G","a","m","m","a">>,
    <<"\\","L","a","m","b","d","a">>,
    <<"\\","P","i">>,
    <<"\\","S","i","g","m","a">>,
    <<"\\","P","h","i">>,
    <<"\\","O","m","e","g","a">>,
    <<"\\","f","r","a","c">>,
    <<"\\","s","q","r","t">>,
    <<"\\","s","u","m">>,
    <<"\\","p","r","o","d">>,
    <<"\\","i","n","t">>,
    <<"\\","i","n","f","t","y">>,
    <<"\\","l","i","m">>,
    <<"\\","s","i","n">>,
    <<"\\","c","o","s">>,
    <<"\\","t","a","n">>,
    <<"\\","l","o","g">>,
    <<"\\","l","n">>,
    <<"\\","b","e","g","i","n">>,
    <<"\\","e","n","d">>,
    <<"\\","s","e","c","t","i","o","n">>,
    <<"\\","s","u","b","s","e","c","t","i","o","n">>,
    <<"\\","s","u","b","s","u","b","s","e","c","t","i","o","n">>,
    <<"\\","p","a","r","a","g","r","a","p","h">>,
    <<"\\","t","e","x","t","b","f">>,
    <<"\\","t","e","x","t","i","t">>,
    <<"\\","u","n","d","e","r","l","i","n","e">>,
    <<"\\","e","m","p","h">>,
    <<"\\","u","s","e","p","a","c","k","a","g","e">>,
    <<"\\","d","o","c","u","m","e","n","t","c","l","a","s","s">>,
    <<"\\","t","i","t","l","e">>,
    <<"\\","a","u","t","h","o","r">>,
    <<"\\","d","a","t","e">>,
    <<"\\","m","a","k","e","t","i","t","l","e">>,
    <<"\\","l","a","b","e","l">>,
    <<"\\","r","e","f">>,
    <<"\\","c","i","t","e">>,
    <<"\\","i","t","e","m">>>>

\* the characters the user types
EditorKeys == {"\\", "p", "i", "s", " "}

\* String.prototype.lastIndexOf for one character: the index (from 0) of its
\* last occurrence, or -1
lastIndexOf(s, ch) ==
  LET K == {k \in 1..Len(s) : s[k] = ch}
  IN  IF K = {} THEN -1 ELSE (CHOOSE k \in K : \A j \in K : j <= k) - 1

\* line 71: textBeforeCursor.match(/\\[a-zA-Z]*$/): the matched text, or
\* <<>> when there is no match (a match is never empty).  The match is the
\* leftmost position from which a backslash and letters reach the end.
CommandMatch(textBeforeCursor) ==
  LET K == {k \in 1..Len(textBeforeCursor) :
              /\ textBeforeCursor[k] = "\\"
              /\ \A j \in (k + 1)..Len(textBeforeCursor) :
                    textBeforeCursor[j] \in Letters}
  IN  IF K = {} THEN <<>>
      ELSE SubSeq(textBeforeCursor, CHOOSE k \in K : \A j \in K : k <= j,
                  Len(textBeforeCursor))

\* handleKeyUp whose filter keeps the command that is typed in full
handleKeyUpKeepsExact(ed, value, selectionStart) ==
  LET query == CommandMatch(SubSeq(value, 1, selectionStart))
      Keeps(cmd) == startsWith(cmd, query)
      filtered == SelectSeq(COMMON_COMMANDS, Keeps)
  IN  IF query # <<>> /\ filtered # <<>>
        THEN [ed EXCEPT !.suggestions = filtered, !.showSuggestions = TRUE]
        ELSE [ed EXCEPT !.showSuggestions = FALSE]

\* lines 65-87: handleKeyUp; suggestions is set only when the filtered list
\* is not empty
handleKeyUp(ed, value, selectionStart) ==
  LET query == CommandMatch(SubSeq(value, 1, selectionStart))
      Keeps(cmd) == startsWith(cmd, query) /\ cmd # query
      filtered == SelectSeq(COMMON_COMMANDS, Keeps)
  IN  IF query # <<>> /\ filtered # <<>>
        THEN [ed EXCEPT !.suggestions = filtered, !.showSuggestions = TRUE]
        ELSE [ed EXCEPT !.showSuggestions = FALSE]

\* the command inserted at the caret, the typed prefix left in place
SuggestionAppliedAtCaret(value, start, cmd) ==
  [changed |-> TRUE,
   value |-> SubSeq(value, 1, start) \o cmd \o SubSeq(value, start + 1, Len(value)),
   caret |-> start + Len(cmd)]

\* lines 93-106: the new value and the caret applySuggestion produces, or
\* no change when no backslash precedes the caret
SuggestionApplied(value, start, cmd) ==
  LET lastBackslash == lastIndexOf(SubSeq(value, 1, start), "\\")
  IN  IF lastBackslash # -1
        THEN [changed |-> TRUE,
              value |-> SubSeq(value, 1, lastBackslash) \o cmd
                          \o SubSeq(value, start + 1, Len(value)),
              caret |-> lastBackslash + Len(cmd)]
        ELSE [changed |-> FALSE, value |-> value, caret |-> start]

\* what the editor leaves unchanged when only its text, caret and popup move
EditorFrame ==
  UNCHANGED <<activeQuestion, debouncedLatex, answerFile, gradingResult,
              processing, gradingCalls, convertCalls, scans, alerts, issued,
              started, lastSettled, resolved, lastMerge, lastConverted,
              preview, view, cleared, setup, retryVars>>

\* a key is pressed in the textarea: a character is typed at the caret,
\* Backspace removes the character before it, an arrow key moves it by one.
\* The editor's onValueChange runs when the text changed, then the key-up.
KeyPress ==
  \E key \in EditorKeys \cup {"Backspace", "ArrowLeft", "ArrowRight"} :
     LET before == SubSeq(latexSource, 1, editor.caret)
         behind == SubSeq(latexSource, editor.caret + 1, Len(latexSource))
         value == CASE key = "Backspace" ->
                         SubSeq(before, 1, Len(before) - 1) \o behind
                    [] key \in {"ArrowLeft", "ArrowRight"} -> latexSource
                    [] OTHER -> before \o <<key>> \o behind
         selectionStart == CASE key \in {"Backspace", "ArrowLeft"} -> editor.caret - 1
                             [] OTHER -> editor.caret + 1
     IN  /\ preview.mounted
         /\ editor.steps < MaxEditorSteps
         /\ 0 <= selectionStart /\ selectionStart <= Len(value)
         /\ latexSource' = value
         /\ debounceTimer' = (debounceTimer \/ value # latexSource)
         /\ debounceClock' =
              IF value # latexSource THEN Restarted ELSE debounceClock
         /\ editor' = [handleKeyUp(editor, value, selectionStart) EXCEPT
                         !.caret = selectionStart, !.steps = @ + 1,
                         !.event = [kind |-> "keyup", cmd |-> <<>>]]
         /\ EditorFrame

\* a click before or after the text moves the caret: no key-up, handleKeyUp
\* does not run
ClickCaret ==
  \E c \in {0, Len(latexSource)} :
     /\ preview.mounted
     /\ editor.steps < MaxEditorSteps
     /\ c # editor.caret
     /\ editor' = [editor EXCEPT !.caret = c, !.steps = @ + 1,
                                 !.event = [kind |-> "click", cmd |-> <<>>]]
     /\ UNCHANGED <<latexSource, debounceTimer, debounceClock>>
     /\ EditorFrame

\* lines 89-108: a suggestion of the popup is clicked.  The caret is set in
\* a zero-delay timeout, taken here with the click.
applySuggestion ==
  \E n \in 1..Len(editor.suggestions) :
     LET cmd == editor.suggestions[n]
         after == SuggestionApplied(latexSource, editor.caret, cmd)
     IN  /\ preview.mounted
         /\ editor.showSuggestions
         /\ editor.steps < MaxEditorSteps
         /\ latexSource' = after.value
         /\ debounceTimer' = (debounceTimer \/ after.value # latexSource)
         /\ debounceClock' =
              IF after.value # latexSource THEN Restarted ELSE debounceClock
         /\ editor' = [editor EXCEPT
              !.caret = after.caret,
              !.showSuggestions = IF after.changed THEN FALSE ELSE @,
              !.steps = @ + 1,
              !.event = [kind |-> "accept", cmd |-> cmd]]
         /\ EditorFrame

(***************************************************************************)
(* SpecEditor: the user types, moves the caret, accepts suggestions and    *)
(* clears the text.                                                        *)
(***************************************************************************)
NextEditor ==
  \/ KeyPress
  \/ ClickCaret
  \/ applySuggestion
  \/ handleClear

SpecEditor == Init /\ [][NextEditor]_vars


(***************************************************************************)
(* Claims about the autocomplete of the editor.                            *)
(***************************************************************************)
\* C22: after a key-up, if the text before the caret ends in a backslash
\* followed by letters only (the partial command q), the popup is shown
\* exactly when some command of the fixed list starts with q and differs
\* from q, and then it lists exactly those commands, each once; if the text
\* before the caret does not end so, the popup is hidden.
C22_SuggestionsOnKeyUp ==
  [][(editor'.steps # editor.steps /\ editor'.event.kind = "keyup") =>
       LET t == SubSeq(latexSource', 1, editor'.caret)
           Q == {k \in 1..Len(t) :
                   t[k] = "\\" /\ \A j \in (k + 1)..Len(t) : t[j] \in Letters}
           shown == {editor'.suggestions[m] : m \in 1..Len(editor'.suggestions)}
       IN  IF Q = {} THEN ~editor'.showSuggestions
           ELSE \A k \in Q :
                  LET q == SubSeq(t, k, Len(t))
                      matching == {n \in 1..Len(COMMON_COMMANDS) :
                                     /\ startsWith(COMMON_COMMANDS[n], q)
                                     /\ COMMON_COMMANDS[n] # q}
                  IN  /\ editor'.showSuggestions <=> matching # {}
                      /\ editor'.showSuggestions =>
                           /\ shown = {COMMON_COMMANDS[n] : n \in matching}
                           /\ Len(editor'.suggestions) = Cardinality(matching)]_vars

C22_Witness ==
  /\ editor.event.kind = "keyup"
  /\ latexSource = <<"\\", "s", "i">>
  /\ editor.caret = 3
  /\ editor.showSuggestions
  /\ editor.suggestions = <<<<"\\","s","i","g","m","a">>, <<"\\","s","i","n">>>>

\* the backslashes before the caret that no backslash escapes: those with an
\* even number of backslashes immediately before them
UnescapedBackslashes(t) ==
  {k \in 1..Len(t) :
     /\ t[k] = "\\"
     /\ \E n \in 0..(k - 1) :
          /\ n % 2 = 0
          /\ \A j \in (k - n)..(k - 1) : t[j] = "\\"
          /\ (k - n = 1 \/ t[k - n - 1] # "\\")}

\* C23 (as claimed): accepting a suggestion while a backslash precedes the
\* caret replaces the text from the last unescaped backslash before the
\* caret up to the caret with the command, keeps the text before that
\* backslash and after the caret, puts the caret after the command and
\* hides the popup.
C23_ReplacesFromLastUnescapedBackslash ==
  [][(editor'.steps # editor.steps /\ editor'.event.kind = "accept"
        /\ UnescapedBackslashes(SubSeq(latexSource, 1, editor.caret)) # {}) =>
       LET U == UnescapedBackslashes(SubSeq(latexSource, 1, editor.caret))
           p == CHOOSE k \in U : \A j \in U : j <= k
           cmd == editor'.event.cmd
       IN  /\ latexSource' = SubSeq(latexSource, 1, p - 1) \o cmd
                               \o SubSeq(latexSource, editor.caret + 1, Len(latexSource))
           /\ editor'.caret = p - 1 + Len(cmd)
           /\ ~editor'.showSuggestions]_vars

\* C23 (amended): accepting a suggestion while a backslash precedes the
\* caret replaces the text from the last backslash before the caret, escaped
\* or not, up to the caret with the command, keeps the text before that
\* backslash and after the caret, puts the caret after the command and
\* hides the popup; while no backslash precedes the caret, accepting a
\* suggestion changes neither the text nor the caret and the popup stays.
C23_ReplacesFromLastBackslash ==
  [][(editor'.steps # editor.steps /\ editor'.event.kind = "accept") =>
       LET B == {k \in 1..editor.caret : latexSource[k] = "\\"}
           cmd == editor'.event.cmd
       IN  IF B # {}
             THEN LET p == CHOOSE k \in B : \A j \in B : j <= k
                  IN  /\ latexSource' = SubSeq(latexSource, 1, p - 1) \o cmd
                            \o SubSeq(latexSource, editor.caret + 1, Len(latexSource))
                      /\ editor'.caret = p - 1 + Len(cmd)
                      /\ ~editor'.showSuggestions
             ELSE /\ latexSource' = latexSource
                  /\ editor'.caret = editor.caret
                  /\ editor'.showSuggestions]_vars

C23_Witness ==
  /\ editor.event.kind = "accept"
  /\ editor.event.cmd = <<"\\", "p", "i">>
  /\ latexSource = <<"\\", "\\", "p", "i">>
  /\ editor.caret = 4
  /\ ~editor.showSuggestions

====
